---- MODULE Spec2Model ----
(***************************************************************************)
(* A model of the Conforama phone extractor:                               *)
(*   - ConforamaSession.extract_phone_number, the pattern cascade,         *)
(*     computed on texts that are sequences of one-character strings;      *)
(*   - ConforamaSession's four operations and                              *)
(*     PhoneExtractor.process_single_account, one attempt step by step;    *)
(*   - PhoneExtractor.process_accounts_threaded, the control loop, with    *)
(*     the worker pool that runs the attempts, and stop().                 *)
(***************************************************************************)
EXTENDS Integers, Sequences, FiniteSets, TLC

\* Bounds of the model.
MaxChunks == 3
MaxCreds == 4
MaxWorkers == 2

\* The chunks of a text that is searched twice.
TwiceChunks == 2

\* The chunks of a text with several numbers.
OrderLen == 4
DeepCreds == 6

\* The lines of a credentials file, and the characters of a line.
FileLines == 2
LineLen == 4

\* The credentials of the longest run of an ExtractionWorker: past the 200
\* results that are never batched, and past a multiple of 10.
MaxTotal == 212

(***************************************************************************)
(* Python values.  A str is a sequence of one-character strings; None is   *)
(* the sequence NoneVal and the "banned" marker of the session operations  *)
(* is BannedVal: neither is a sequence of single characters.               *)
(***************************************************************************)
NoneVal == <<"None">>
BannedVal == <<"banned">>

IsDigit(c) == c \in {"0", "1", "2", "3", "4", "5", "6", "7", "8", "9"}

IsSpace(c) == c \in {" ", "\t", "\n"}

\* \w of the re module: letters, digits and the underscore.
IsWord(c) ==
    \/ IsDigit(c)
    \/ c \in {"t", "e", "l", "p", "h", "o", "n", "f", "m", "v", "i", "a",
              "u", "x", "T", "E", "L", "_", "o'"}

\* re.IGNORECASE compares letters without their case.
Lower(c) ==
    CASE c = "T" -> "t"
      [] c = "E" -> "e"
      [] c = "L" -> "l"
      [] OTHER -> c

(***************************************************************************)
(* The patterns of extract_phone_number, in the order of the list.  The     *)
(* one-character string "o'" stands for the letter o with an acute accent. *)
(***************************************************************************)
Patterns ==
    << [kind |-> "cc", lo |-> "6", lit |-> <<>>],
       [kind |-> "cc", lo |-> "8", lit |-> <<>>],
       [kind |-> "tag", lo |-> "", lit |-> <<"t", "e", "l">>],
       [kind |-> "tag", lo |-> "", lit |-> <<"p", "h", "o", "n", "e">>],
       [kind |-> "tag", lo |-> "",
        lit |-> <<"t", "e", "l", "e", "f", "o", "n", "o">>],
       [kind |-> "tag", lo |-> "", lit |-> <<"m", "o'", "v", "i", "l">>],
       [kind |-> "nine", lo |-> "", lit |-> <<>>],
       [kind |-> "value", lo |-> "6",
        lit |-> <<"v", "a", "l", "u", "e", "=", "\"">>],
       [kind |-> "between", lo |-> "6", lit |-> <<>>] >>

NoMatch == [ok |-> FALSE, end |-> 0, val |-> <<>>]

\* [lo-9]: the digits from lo to 9.
InRange(c, lo) ==
    IF lo = "6" THEN c \in {"6", "7", "8", "9"} ELSE c \in {"8", "9"}

\* [lo-9]\d{8} at position i.
Core(s, i, lo) ==
    /\ i >= 1
    /\ i + 8 <= Len(s)
    /\ InRange(s[i], lo)
    /\ \A k \in 1..8 : IsDigit(s[i + k])

\* A literal at position i, letters compared without case.
LitAt(s, i, lit) ==
    /\ i + Len(lit) - 1 <= Len(s)
    /\ \A k \in 1..Len(lit) : Lower(s[i + k - 1]) = Lower(lit[k])

\* (\+34\s?)?[lo-9]\d{8}: the value is group 1, empty when it took no part.
MatchCC(s, i, lo) ==
    LET hasCC == /\ i + 2 <= Len(s)
                 /\ s[i] = "+" /\ s[i + 1] = "3" /\ s[i + 2] = "4"
        j0 == i + 3
        j == IF j0 <= Len(s) /\ IsSpace(s[j0]) THEN j0 + 1 ELSE j0
    IN  IF hasCC /\ Core(s, j, lo)
        THEN [ok |-> TRUE, end |-> j + 9, val |-> SubSeq(s, i, j - 1)]
        ELSE IF Core(s, i, lo)
        THEN [ok |-> TRUE, end |-> i + 9, val |-> <<>>]
        ELSE NoMatch

\* The first position >= i holding character c, or 0.
RECURSIVE IndexOf(_, _, _)
IndexOf(s, i, c) ==
    IF i > Len(s) THEN 0
    ELSE IF s[i] = c THEN i
    ELSE IndexOf(s, i + 1, c)

\* The end of the longest run from i of characters other than c.
RunEnd(s, i, c) ==
    LET n == IndexOf(s, i, c) IN IF n = 0 THEN Len(s) ELSE n - 1

\* lit[^>]*>([^<]+): the value is group 1.
MatchTag(s, i, lit) ==
    IF ~LitAt(s, i, lit) THEN NoMatch
    ELSE LET gt == IndexOf(s, i + Len(lit), ">")
             e == RunEnd(s, gt + 1, "<")
         IN  IF gt = 0 \/ e < gt + 1 THEN NoMatch
             ELSE [ok |-> TRUE, end |-> e + 1, val |-> SubSeq(s, gt + 1, e)]

Digits3(s, i) ==
    /\ i + 2 <= Len(s)
    /\ IsDigit(s[i]) /\ IsDigit(s[i + 1]) /\ IsDigit(s[i + 2])

\* [-\s]? at position i: the position after it.
SkipSep(s, i) ==
    IF i <= Len(s) /\ (s[i] = "-" \/ IsSpace(s[i])) THEN i + 1 ELSE i

\* \b between positions i - 1 and i.
Boundary(s, i) ==
    LET before == i > 1 /\ IsWord(s[i - 1])
        after == i <= Len(s) /\ IsWord(s[i])
    IN  before # after

\* \b\d{3}[-\s]?\d{3}[-\s]?\d{3}\b: no group, the value is the whole match.
MatchNine(s, i) ==
    LET a == SkipSep(s, i + 3)
        b == SkipSep(s, a + 3)
    IN  IF /\ Boundary(s, i) /\ Digits3(s, i)
           /\ Digits3(s, a) /\ Digits3(s, b)
           /\ Boundary(s, b + 3)
        THEN [ok |-> TRUE, end |-> b + 3, val |-> SubSeq(s, i, b + 2)]
        ELSE NoMatch

\* value="([6-9]\d{8})": the value is group 1.
MatchValue(s, i, lit) ==
    LET j == i + Len(lit)
    IN  IF /\ LitAt(s, i, lit) /\ Core(s, j, "6")
           /\ j + 9 <= Len(s) /\ s[j + 9] = "\""
        THEN [ok |-> TRUE, end |-> j + 10, val |-> SubSeq(s, j, j + 8)]
        ELSE NoMatch

\* \s* from position i: the position after it.
RECURSIVE SkipSpaces(_, _)
SkipSpaces(s, i) ==
    IF i <= Len(s) /\ IsSpace(s[i]) THEN SkipSpaces(s, i + 1) ELSE i

\* >\s*([6-9]\d{8})\s*<: the value is group 1.
MatchBetween(s, i) ==
    IF ~(i <= Len(s) /\ s[i] = ">") THEN NoMatch
    ELSE LET j == SkipSpaces(s, i + 1)
             e == SkipSpaces(s, j + 9)
         IN  IF Core(s, j, "6") /\ e <= Len(s) /\ s[e] = "<"
             THEN [ok |-> TRUE, end |-> e + 1, val |-> SubSeq(s, j, j + 8)]
             ELSE NoMatch

\* One match attempt of pattern p at position i.
MatchAt(p, s, i) ==
    CASE p.kind = "cc" -> MatchCC(s, i, p.lo)
      [] p.kind = "tag" -> MatchTag(s, i, p.lit)
      [] p.kind = "nine" -> MatchNine(s, i)
      [] p.kind = "value" -> MatchValue(s, i, p.lit)
      [] p.kind = "between" -> MatchBetween(s, i)

\* re.findall(pattern, s): the non-overlapping matches from left to right.
RECURSIVE FindAllFrom(_, _, _)
FindAllFrom(p, s, i) ==
    IF i > Len(s) THEN <<>>
    ELSE LET m == MatchAt(p, s, i)
         IN  IF m.ok THEN <<m.val>> \o FindAllFrom(p, s, m.end)
             ELSE FindAllFrom(p, s, i + 1)

FindAll(p, s) == FindAllFrom(p, s, 1)

\* re.sub(r'[^\d+]', '', phone)
CleanPhone(phone) == SelectSeq(phone, LAMBDA c : IsDigit(c) \/ c = "+")

\* A search for the first nine consecutive digits that start with 6.
RECURSIVE SearchNineFromSix(_, _)
SearchNineFromSix(s, i) ==
    IF i + 8 > Len(s) THEN NoneVal
    ELSE IF s[i] = "6" /\ \A k \in 0..8 : IsDigit(s[i + k])
    THEN SubSeq(s, i, i + 8)
    ELSE SearchNineFromSix(s, i + 1)

\* re.search(r'\d{9}', s): the first nine consecutive digits, or None.
RECURSIVE SearchNine(_, _)
SearchNine(s, i) ==
    IF i + 8 > Len(s) THEN NoneVal
    ELSE IF \A k \in 0..8 : IsDigit(s[i + k]) THEN SubSeq(s, i, i + 8)
    ELSE SearchNine(s, i + 1)

\* Validate without the test that the number starts with 6.
ValidateAnyNine(match) ==
    LET phone == CleanPhone(match)
    IN  IF Len(phone) >= 9 THEN SearchNine(phone, 1) ELSE NoneVal

\* The body of the loop over the matches: the number a match yields, or None.
Validate(match) ==
    LET phone == CleanPhone(match)
    IN  IF Len(phone) >= 9
        THEN LET number == SearchNine(phone, 1)
             IN  IF number # NoneVal /\ number[1] = "6" THEN number
                 ELSE NoneVal
        ELSE NoneVal

\* A loop over the matches that keeps the last number it finds.
RECURSIVE LastValid(_)
LastValid(matches) ==
    IF matches = <<>> THEN NoneVal
    ELSE LET n == LastValid(Tail(matches))
         IN  IF n # NoneVal THEN n ELSE Validate(Head(matches))

\* The loop over the matches of one pattern: the first number, or None.
RECURSIVE FirstValid(_)
FirstValid(matches) ==
    IF matches = <<>> THEN NoneVal
    ELSE LET n == Validate(Head(matches))
         IN  IF n # NoneVal THEN n ELSE FirstValid(Tail(matches))

\* The cascade that gives up at the first pattern with any match.
RECURSIVE CascadeStopsAtFirstMatch(_, _)
CascadeStopsAtFirstMatch(k, html_content) ==
    IF k > Len(Patterns) THEN NoneVal
    ELSE LET matches == FindAll(Patterns[k], html_content)
         IN  IF matches # <<>> THEN FirstValid(matches)
             ELSE CascadeStopsAtFirstMatch(k + 1, html_content)

\* The cascade without its three patterns for numbers outside a named tag.
RECURSIVE CascadeWithoutBarePatterns(_, _)
CascadeWithoutBarePatterns(k, html_content) ==
    IF k > 6 THEN NoneVal
    ELSE LET n == FirstValid(FindAll(Patterns[k], html_content))
         IN  IF n # NoneVal THEN n
             ELSE CascadeWithoutBarePatterns(k + 1, html_content)

\* The loop over the patterns from the k-th on.
RECURSIVE CascadeFrom(_, _)
CascadeFrom(k, html_content) ==
    IF k > Len(Patterns) THEN NoneVal
    ELSE LET n == FirstValid(FindAll(Patterns[k], html_content))
         IN  IF n # NoneVal THEN n ELSE CascadeFrom(k + 1, html_content)

extract_phone_number(html_content) == CascadeFrom(1, html_content)


(***************************************************************************)
(* The texts the cascade is run on: every concatenation of at most         *)
(* MaxChunks of these pieces of page markup.                               *)
(***************************************************************************)
Chunks ==
    << <<"6", "1", "2", "3", "4", "5", "6", "7", "8">>,
       <<"9", "1", "2", "3", "4", "5", "6", "7", "8">>,
       <<"+", "3", "4", " ">>,
       <<"+", "3", "4">>,
       <<">">>,
       <<"<">>,
       <<"t", "e", "l", ">">>,
       <<"T", "e", "l", " ", "<", "x", ">">>,
       <<"v", "a", "l", "u", "e", "=", "\"">>,
       <<"\"">>,
       <<"6", "1", "2", " ", "3", "4", "5", "-", "6", "7", "8">>,
       <<"x">>,
       <<"1">>,
       <<"p", "h", "o", "n", "e", ">">>,
       <<"m", "o'", "v", "i", "l", ">">>,
       <<" ">> >>

RECURSIVE TextsOf(_)
TextsOf(n) ==
    IF n = 0 THEN {<<>>}
    ELSE LET prev == TextsOf(n - 1)
         IN  prev \cup {t \o Chunks[c] : t \in prev, c \in DOMAIN Chunks}

Texts == TextsOf(MaxChunks)

\* Chunks of texts in which one pattern has several matches: two mobile
\* numbers, a landline number, and what separates or introduces them.
OrderChunks ==
    << <<"6", "1", "2", "3", "4", "5", "6", "7", "8">>,
       <<"6", "9", "8", "7", "6", "5", "4", "3", "2">>,
       <<"9", "1", "2", "3", "4", "5", "6", "7", "8">>,
       <<" ">>,
       <<"t", "e", "l", ">">>,
       <<"<">>,
       <<"+", "3", "4">>,
       <<"1", "2">> >>

RECURSIVE OrderTextsOf(_)
OrderTextsOf(n) ==
    IF n = 0 THEN {<<>>}
    ELSE LET prev == OrderTextsOf(n - 1)
         IN  prev \cup {t \o OrderChunks[c] : t \in prev,
                                                c \in DOMAIN OrderChunks}

(***************************************************************************)
(* PhoneResult and the credentials.                                        *)
(***************************************************************************)
NoError == "<None>"

EmptyStr == <<>>

\* PhoneResult.__init__: the six fields as given.
PhoneResult(username, password, phone, success, error, banned) ==
    [username |-> username, password |-> password, phone |-> phone,
     success |-> success, error |-> error, banned |-> banned]

\* The k-th credential pair of the input: every fourth pair repeats one.
Cred(k) == << <<"user", k % 3>>, <<"secret", k % 3>> >>

(***************************************************************************)
(* The answers of the transport.  A response is a record: exc says that    *)
(* the request raised instead of answering; status and url are those of    *)
(* the final response after redirects; the body is what the server sent:   *)
(* text is its properly decoded text, raw its bytes decoded as UTF-8 with  *)
(* replacement, text_raises whether response.text raises, encoding the     *)
(* content-encoding header and brotli what the brotli module does.         *)
(***************************************************************************)
HistoryUrl == <<"https://www.conforama.es/", "sales/order/history">>

LoginUrl ==
    <<"https://www.conforama.es/", "customer/account/login", "?ReturnUrl=",
      "%2Fsales%2Forder%2Fhistory">>

\* A login page whose query names the return path without encoding it.
LoginUrlPlain ==
    <<"https://www.conforama.es/", "customer/account/login", "?ReturnUrl=/",
      "sales/order/history">>

NoBody ==
    [text |-> <<>>, raw |-> <<>>, text_raises |-> FALSE, encoding |-> "",
     brotli |-> "ok"]

Response(status, url, body) ==
    [exc |-> FALSE, status |-> status, url |-> url, body |-> body]

Raised == [exc |-> TRUE, status |-> 0, url |-> <<>>, body |-> NoBody]

Mobile == Chunks[1]

Landline == Chunks[2]

\* Address pages: text that decodes, and bodies whose automatic decoding fails.
PageOf(t) == [NoBody EXCEPT !.text = t, !.raw = t]

Bodies ==
    { PageOf(<<">">> \o Mobile \o <<"<">>),
      PageOf(Chunks[7] \o Landline \o <<"<">>),
      PageOf(<<"x">>),
      [text |-> Mobile, raw |-> <<"x">>, text_raises |-> TRUE,
       encoding |-> "br", brotli |-> "ok"],
      [text |-> Mobile, raw |-> <<"x">>, text_raises |-> TRUE,
       encoding |-> "br", brotli |-> "missing"],
      [text |-> <<"x">>, raw |-> <<">">> \o Mobile \o <<"<">>,
       text_raises |-> TRUE, encoding |-> "br", brotli |-> "raises"],
      [text |-> Mobile, raw |-> Mobile, text_raises |-> TRUE,
       encoding |-> "", brotli |-> "ok"] }

Statuses == {200, 401, 500}

\* Every answer the transport can give to each of the four requests, and
\* whether building the client can raise.
FullTransport ==
    [page |-> {Raised} \cup {Response(s, LoginUrl, NoBody) : s \in Statuses},
     login |-> {Raised} \cup
               {Response(s, u, NoBody) :
                    s \in Statuses, u \in {HistoryUrl, LoginUrl, LoginUrlPlain}},
     order |-> {Raised} \cup {Response(s, HistoryUrl, NoBody) : s \in Statuses},
     address |-> {Raised} \cup
                 {Response(s, HistoryUrl, b) : s \in Statuses, b \in Bodies},
     client |-> {"ok", "raises"}]

\* A server that answers every request: it bans some clients at the first
\* request and serves the others an address page with a mobile number.
SmallTransport ==
    [page |-> {Response(s, LoginUrl, NoBody) : s \in {200, 401}},
     login |-> {Response(200, HistoryUrl, NoBody)},
     order |-> {Response(200, HistoryUrl, NoBody)},
     address |-> {Response(200, HistoryUrl, PageOf(<<">">> \o Mobile \o <<"<">>))},
     client |-> {"ok"}]

\* A server that bans every client at the first request.
TinyTransport ==
    [SmallTransport EXCEPT !.page = {Response(401, LoginUrl, NoBody)}]

(***************************************************************************)
(* ConforamaSession: the four operations as functions of the response.     *)
(***************************************************************************)
\* "needle in str(response.url)", the url being a sequence of its parts.
UrlContains(url, needle) == \E k \in DOMAIN url : url[k] = needle

\* _get_decoded_content: response.text, and when that raises, for a content
\* encoding of br the content decompressed and decoded strictly (the text
\* field of such a body), and otherwise, or when the brotli module is missing
\* or the decompression or the strict decoding raises, the content decoded
\* with replacement (the raw field).
GetDecodedContent(response) ==
    LET b == response.body
    IN  IF ~b.text_raises THEN b.text
        ELSE IF b.encoding = "br"
        THEN IF b.brotli = "ok" THEN b.text ELSE b.raw
        ELSE b.raw

get_login_page(response) ==
    IF response.exc THEN "False"
    ELSE IF response.status = 401 THEN "banned"
    ELSE IF response.status = 200 THEN "True" ELSE "False"

\* perform_login that takes status 200 for the sign of a login.
perform_login_by_status(response) ==
    IF response.exc THEN "False"
    ELSE IF response.status = 401 THEN "banned"
    ELSE IF response.status = 200 THEN "True" ELSE "False"

\* perform_login that looks at the resolved url before the status.
perform_login_url_first(response) ==
    IF response.exc THEN "False"
    ELSE IF UrlContains(response.url, "sales/order/history") THEN "True"
    ELSE IF response.status = 401 THEN "banned"
    ELSE "False"

perform_login(response) ==
    IF response.exc THEN "False"
    ELSE IF response.status = 401 THEN "banned"
    ELSE IF UrlContains(response.url, "sales/order/history") THEN "True"
    ELSE "False"

\* get_order_history without the test for status 401.
get_order_history_no_401(response) ==
    IF response.exc THEN "False"
    ELSE IF response.status = 200 THEN "True" ELSE "False"

get_order_history(response) ==
    IF response.exc THEN "False"
    ELSE IF response.status = 401 THEN "banned"
    ELSE IF response.status = 200 THEN "True" ELSE "False"

\* An operation that reads response.text where it stands.
get_customer_address_text_only(response) ==
    IF response.exc THEN NoneVal
    ELSE IF response.status = 401 THEN BannedVal
    ELSE IF response.status = 200
    THEN IF response.body.text_raises THEN NoneVal
         ELSE extract_phone_number(response.body.text)
    ELSE NoneVal

get_customer_address(response) ==
    IF response.exc THEN NoneVal
    ELSE IF response.status = 401 THEN BannedVal
    ELSE IF response.status = 200
    THEN extract_phone_number(GetDecodedContent(response))
    ELSE NoneVal

(***************************************************************************)
(* The state.                                                              *)
(*   credentials, max_workers: the inputs of a run; transport: the name    *)
(*     of the transport the run talks to, "full", "small" or "tiny";       *)
(*   callback: whether the callback passed to the PhoneExtractor always    *)
(*     returns, or can raise when handed the result of an attempt;         *)
(*   sessions: the ConforamaSession objects in the order of their          *)
(*     construction: the attempt that constructed each, whether it is open *)
(*     or closed, the attempts that sent requests on it and how many, and  *)
(*     whether one was sent after it was closed;                           *)
(*   stop_event: PhoneExtractor.stop_event;                                *)
(*   pc and the variables of process_accounts_threaded's frame;            *)
(*   queue: the work queue of the ThreadPoolExecutor;                      *)
(*   task: per credential position, the attempt made for it: its state     *)
(*     (st), its arguments, its session, the operations it has called, the *)
(*     responses it has seen, the result it returned, and the exception    *)
(*     its future holds when the call raised instead of returning;         *)
(*   callbacks, last_cb: every invocation of the callback, and the         *)
(*     arguments of the last one;                                          *)
(*   text, phone, xpc: a direct call of extract_phone_number;              *)
(*   at_stop, finished: history kept for the properties: the number of     *)
(*     attempts submitted, the size of future_to_account and the attempts  *)
(*     executing when stop() set the event, and whether that was before    *)
(*     process_accounts_threaded began; and the attempts that have         *)
(*     returned and are not yet collected, in the order in which they      *)
(*     returned;                                                           *)
(*   file: the credentials file that CredentialManager reads;              *)
(*   worker: the ExtractionWorker of the front end: its fields, the number *)
(*     of times process_accounts_threaded has invoked its                  *)
(*     progress_callback (calls), and every result it has handed to the    *)
(*     window, in the order of the hand-overs, with the way each went      *)
(*     (handed), and the number of hand-overs of each way (batches).       *)
(***************************************************************************)
VARIABLES credentials, max_workers, transport, stop_event,
          pc, i, initial_batch, total_count, submitted_count, completed_count,
          remaining_credentials, remaining_index, future_to_account,
          scan, completed_futures, queue, task, callbacks, last_cb,
          text, phone, xpc, at_stop, finished, sessions, callback,
          file, worker

frame == <<i, initial_batch, total_count, submitted_count, completed_count,
           remaining_credentials, remaining_index, future_to_account,
           scan, completed_futures>>

inputs == <<credentials, max_workers, transport, callback, file>>

cbs == <<callbacks, last_cb>>

extraction == <<text, phone, xpc>>

history == <<at_stop, finished>>

vars == <<inputs, stop_event, pc, frame, queue, task, cbs, extraction,
          history, sessions, worker>>

\* What the transport of this run can answer.
Answers ==
    IF transport = "full" THEN FullTransport
    ELSE IF transport = "tiny" THEN TinyTransport ELSE SmallTransport

NoResult == PhoneResult(EmptyStr, EmptyStr, NoneVal, FALSE, "<pending>", FALSE)

NoCallback == [result |-> NoResult, completed |-> -1, total |-> -1]

NotStopped ==
    [submitted |-> -1, in_flight |-> -1, running |-> {}, before |-> FALSE]

NewTask ==
    [st |-> "unsubmitted", username |-> EmptyStr, password |-> EmptyStr,
     session |-> "none", sid |-> 0, calls |-> <<>>, resps |-> <<>>,
     result |-> NoResult, exception |-> "none"]

Running == {"login_page", "login", "order", "address"}

(***************************************************************************)
(* process_single_account, one step per blocking call.                     *)
(***************************************************************************)
\* A return that leaves the session as it is.
ReturnLeavesOpen(tk, result) == [tk EXCEPT !.st = "done", !.result = result]

\* A return from inside the with block closes the session.
Return(tk, result) ==
    [tk EXCEPT !.st = "done", !.result = result,
               !.session = IF @ = "open" THEN "closed" ELSE @]

Failure(tk, error) ==
    PhoneResult(tk.username, tk.password, NoneVal, FALSE, error, FALSE)

\* A banned result that also claims success.
BannedResultSuccess(tk) ==
    PhoneResult(tk.username, tk.password, NoneVal, TRUE,
                "IP/Account banned (401)", TRUE)

BannedResult(tk) ==
    PhoneResult(tk.username, tk.password, NoneVal, FALSE,
                "IP/Account banned (401)", TRUE)

Called(tk, op, response) ==
    [tk EXCEPT !.calls = Append(@, op), !.resps = Append(@, response)]

\* An entry that does not look at the stop event.
EnterAccountNoStopCheck(tk, stopped, client) ==
    IF client = "raises"
    THEN Return([tk EXCEPT !.session = "failed"],
                Failure(tk, "Exception: " \o "client"))
    ELSE [tk EXCEPT !.st = "login_page", !.session = "open"]

\* An entry that lets the exception of the constructor out.
EnterAccountUncaught(tk, stopped, client) ==
    IF stopped THEN Return(tk, Failure(tk, "Process stopped"))
    ELSE IF client = "raises"
    THEN [tk EXCEPT !.st = "done", !.session = "failed",
                    !.exception = "client"]
    ELSE [tk EXCEPT !.st = "login_page", !.session = "open"]

\* The entry check, and the construction of the session, which is caught
\* when it raises: session "failed" says that no session came to exist.
EnterAccount(tk, stopped, client) ==
    IF stopped THEN Return(tk, Failure(tk, "Process stopped"))
    ELSE IF client = "raises"
    THEN Return([tk EXCEPT !.session = "failed"],
                Failure(tk, "Exception: " \o "client"))
    ELSE [tk EXCEPT !.st = "login_page", !.session = "open"]

AfterLoginPage(tk, response) ==
    LET login_result == get_login_page(response)
        tk1 == Called(tk, "get_login_page", response)
    IN  IF login_result = "banned" THEN Return(tk1, BannedResult(tk))
        ELSE IF login_result = "False"
        THEN Return(tk1, Failure(tk, "Failed to load login page"))
        ELSE [tk1 EXCEPT !.st = "login"]

AfterLogin(tk, response) ==
    LET login_result == perform_login(response)
        tk1 == Called(tk, "perform_login", response)
    IN  IF login_result = "banned" THEN Return(tk1, BannedResult(tk))
        ELSE IF login_result = "False"
        THEN Return(tk1, Failure(tk, "Login failed"))
        ELSE [tk1 EXCEPT !.st = "order"]

\* The third step without its test of a failed outcome.
AfterOrderHistoryGoesOn(tk, response) ==
    LET order_result == get_order_history(response)
        tk1 == Called(tk, "get_order_history", response)
    IN  IF order_result = "banned" THEN Return(tk1, BannedResult(tk))
        ELSE [tk1 EXCEPT !.st = "address"]

AfterOrderHistory(tk, response) ==
    LET order_result == get_order_history(response)
        tk1 == Called(tk, "get_order_history", response)
    IN  IF order_result = "banned" THEN Return(tk1, BannedResult(tk))
        ELSE IF order_result = "False"
        THEN Return(tk1, Failure(tk, "Failed to access order history"))
        ELSE [tk1 EXCEPT !.st = "address"]

AfterAddress(tk, response) ==
    LET found == get_customer_address(response)
        tk1 == Called(tk, "get_customer_address", response)
    IN  IF found = BannedVal THEN Return(tk1, BannedResult(tk))
        ELSE IF found # NoneVal /\ found # EmptyStr
        THEN Return(tk1, PhoneResult(tk.username, tk.password, found, TRUE,
                                     NoError, FALSE))
        ELSE Return(tk1, Failure(tk, "No phone number found"))

\* ConforamaSession(): a session object of its own, holding its own client.
NewSession(t) ==
    [owner |-> t, state |-> "open", users |-> {}, requests |-> 0,
     late |-> FALSE]

\* One session object kept for every attempt.
OpenedShared(tk) == IF tk.session = "open" THEN [tk EXCEPT !.sid = 1] ELSE tk

\* with ConforamaSession() as session: the attempt that opened a session
\* holds the object just constructed.
Opened(tk) ==
    IF tk.session = "open" THEN [tk EXCEPT !.sid = Len(sessions) + 1] ELSE tk

\* An operation that sends its request again when the first one raised.
RequestsMadeRetrying(response) == IF response.exc THEN 2 ELSE 1

\* The requests one operation hands to its client: the single
\* self.session.get or self.session.post of its body.
RequestsMade(response) == 1

\* What the step of attempt t does to the session objects: one is
\* constructed, the one the attempt holds carries a request, or is closed at
\* the exit of the with block.
Sessions(t) ==
    LET old == task[t]
        new == task'[t]
        s1 == IF new.sid > Len(sessions)
              THEN Append(sessions, NewSession(t)) ELSE sessions
        s2 == IF Len(new.calls) > Len(old.calls)
              THEN [s1 EXCEPT ![new.sid] =
                       [@ EXCEPT !.users = @ \cup {t},
                                 !.requests =
                                     @ + RequestsMade(new.resps[Len(new.resps)]),
                                 !.late = @ \/ s1[new.sid].state = "closed"]]
              ELSE s1
        s3 == IF new.session = "closed" /\ old.session # "closed"
              THEN [s2 EXCEPT ![new.sid].state = "closed"] ELSE s2
    IN  sessions' = s3

\* The attempt at position t has just returned, or goes on.
Finish(t) ==
    finished' = IF task'[t].st = "done" /\ task[t].st # "done"
                THEN Append(finished, t) ELSE finished

\* stop(): sets the event; a second call changes nothing.
Stop ==
    /\ ~stop_event
    /\ stop_event' = TRUE
    /\ at_stop' = [submitted |-> submitted_count,
                   in_flight |-> Len(future_to_account),
                   running |-> {t \in DOMAIN task : task[t].st \in Running},
                   before |-> pc = "start"]
    /\ UNCHANGED <<sessions, inputs, worker, pc, frame, queue, task, cbs, extraction, finished>>

\* A direct call of process_single_account(username, password).
CallAccount(t) ==
    /\ task[t].st = "called"
    /\ \E client \in Answers.client :
           task' = [task EXCEPT ![t] =
                        Opened(EnterAccount(@, stop_event, client))]
    /\ Finish(t)
    /\ Sessions(t)
    /\ UNCHANGED <<inputs, worker, stop_event, pc, frame, queue, cbs, extraction,
                   at_stop>>

GetLoginPage(t) ==
    /\ task[t].st = "login_page"
    /\ \E response \in Answers.page :
           task' = [task EXCEPT ![t] = AfterLoginPage(@, response)]
    /\ Finish(t)
    /\ Sessions(t)
    /\ UNCHANGED <<inputs, worker, stop_event, pc, frame, queue, cbs, extraction,
                   at_stop>>

PerformLogin(t) ==
    /\ task[t].st = "login"
    /\ \E response \in Answers.login :
           task' = [task EXCEPT ![t] = AfterLogin(@, response)]
    /\ Finish(t)
    /\ Sessions(t)
    /\ UNCHANGED <<inputs, worker, stop_event, pc, frame, queue, cbs, extraction,
                   at_stop>>

GetOrderHistory(t) ==
    /\ task[t].st = "order"
    /\ \E response \in Answers.order :
           task' = [task EXCEPT ![t] = AfterOrderHistory(@, response)]
    /\ Finish(t)
    /\ Sessions(t)
    /\ UNCHANGED <<inputs, worker, stop_event, pc, frame, queue, cbs, extraction,
                   at_stop>>

GetCustomerAddress(t) ==
    /\ task[t].st = "address"
    /\ \E response \in Answers.address :
           task' = [task EXCEPT ![t] = AfterAddress(@, response)]
    /\ Finish(t)
    /\ Sessions(t)
    /\ UNCHANGED <<inputs, worker, stop_event, pc, frame, queue, cbs, extraction,
                   at_stop>>

\* A direct call of extract_phone_number(text).
Extract ==
    /\ xpc = "input"
    /\ phone' = extract_phone_number(text)
    /\ xpc' = "done"
    /\ UNCHANGED <<sessions, inputs, worker, stop_event, pc, frame, queue, task, cbs, text,
                   history>>

\* A second call that counts itself on the session.
ExtractAgainCounting ==
    /\ xpc = "done"
    /\ phone' = extract_phone_number(text)
    /\ xpc' = "again"
    /\ sessions' = [s \in DOMAIN sessions |->
                       [sessions[s] EXCEPT !.requests = @ + 1]]
    /\ UNCHANGED <<inputs, worker, stop_event, pc, frame, queue, task, cbs, text,
                   history>>

\* A second call of extract_phone_number(text) on the same session.
ExtractAgain ==
    /\ xpc = "done"
    /\ phone' = extract_phone_number(text)
    /\ xpc' = "again"
    /\ UNCHANGED <<sessions, inputs, worker, stop_event, pc, frame, queue, task, cbs,
                   text, history>>

(***************************************************************************)
(* CredentialManager.  A line is a sequence of characters without its line *)
(* terminator; a file is missing, or cannot be read to its end, or is a    *)
(* sequence of lines.                                                      *)
(***************************************************************************)
LineChars == {"@", ":", " ", "p"}

LinesOf(n) == UNION {[1..k -> LineChars] : k \in 0..n}

FilesOf(m, n) ==
    UNION {[1..k -> LinesOf(n)] : k \in 0..m}

NoFile == [exists |-> FALSE, raises |-> FALSE, lines |-> <<>>]

Files ==
    {NoFile}
      \cup {[exists |-> TRUE, raises |-> TRUE, lines |-> <<<<"@", ":", "p">>>>]}
      \cup {[exists |-> TRUE, raises |-> FALSE, lines |-> l] :
               l \in FilesOf(FileLines, LineLen)}

\* str.strip(): the whitespace at both ends is removed.
RECURSIVE LStrip(_)
LStrip(s) ==
    IF s # <<>> /\ IsSpace(Head(s)) THEN LStrip(Tail(s)) ELSE s

RECURSIVE RStrip(_)
RStrip(s) ==
    IF s # <<>> /\ IsSpace(s[Len(s)])
    THEN RStrip(SubSeq(s, 1, Len(s) - 1))
    ELSE s

Strip(s) == RStrip(LStrip(s))

\* line.split(':', 1) with the separator at the last ':' of the line.
SplitAtLast(line) ==
    LET at == CHOOSE k \in DOMAIN line :
                  /\ line[k] = ":"
                  /\ \A j \in DOMAIN line : line[j] = ":" => j <= k
    IN  <<SubSeq(line, 1, at - 1), SubSeq(line, at + 1, Len(line))>>

\* line.split(':', 1) of a line that contains ':': the parts before and
\* after the first ':'.
SplitOnce(line) ==
    LET at == IndexOf(line, 1, ":")
    IN  <<SubSeq(line, 1, at - 1), SubSeq(line, at + 1, Len(line))>>

\* The loop of read_credentials over the lines of the file.
RECURSIVE ReadLines(_)
ReadLines(lines) ==
    IF lines = <<>> THEN <<>>
    ELSE LET line == Strip(Head(lines))
             rest == ReadLines(Tail(lines))
         IN  IF line # <<>> /\ IndexOf(line, 1, ":") # 0
             THEN LET parts == SplitOnce(line)
                  IN  <<<<Strip(parts[1]), Strip(parts[2])>>>> \o rest
             ELSE rest

\* A missing file gives [], and so does any exception while the file is
\* opened or read, whatever had been read before it.
read_credentials(f) ==
    IF ~f.exists THEN <<>>
    ELSE IF f.raises THEN <<>>
    ELSE ReadLines(f.lines)

ValidPair(c) == c[1] # <<>> /\ c[2] # <<>> /\ IndexOf(c[1], 1, "@") # 0

validate_credentials(creds) == SelectSeq(creds, ValidPair)

get_valid_credentials(f) == validate_credentials(read_credentials(f))

\* The front end loads the credentials of the file.
GetValidCredentials ==
    /\ pc = "load"
    /\ credentials' = get_valid_credentials(file)
    /\ pc' = "loaded"
    /\ UNCHANGED <<max_workers, transport, callback, file, worker,
                   stop_event, frame, queue, task, cbs, extraction, history,
                   sessions>>

(***************************************************************************)
(* ExtractionWorker.  A result is named by the number of the invocation of *)
(* progress_callback that passed it.                                       *)
(***************************************************************************)
NoWorker ==
    [is_stopped |-> FALSE, total_accounts |-> 0, gui_update_batch_size |-> 0,
     result_batch |-> <<>>, calls |-> 0, handed |-> <<>>,
     batches |-> [signal |-> 0, flush |-> 0]]

BatchSizes == {5, 10}

Totals == {0, 1, MaxTotal}

\* ExtractionWorker(credentials, max_workers, gui_update_batch_size, ...).
NewWorker(total, size) ==
    [NoWorker EXCEPT !.total_accounts = total,
                     !.gui_update_batch_size = size]

\* The completed count of the n-th invocation made by
\* process_accounts_threaded: three announcements with 0, then one
\* invocation per attempt.
CompletedOf(n) == IF n <= 3 THEN 0 ELSE n - 3

\* The results leave the worker for the window: by an emission of
\* batch_progress_updated, or by the window's own call of
\* on_batch_progress_updated.
HandOver(w, batch, via) ==
    [w EXCEPT !.handed = w.handed \o [k \in DOMAIN batch |->
                                         [result |-> batch[k], via |-> via]],
              !.batches[via] = w.batches[via] + 1]

\* progress_callback without result_batch.clear().
progress_callback_keeps_batch(w, result, completed, total, elapsed) ==
    IF w.is_stopped THEN w
    ELSE IF completed <= 200 THEN HandOver(w, <<result>>, "signal")
    ELSE LET batch == Append(w.result_batch, result)
         IN  IF \/ Len(batch) >= w.gui_update_batch_size
                \/ elapsed
                \/ completed = total
                \/ completed % 10 = 0
             THEN HandOver([w EXCEPT !.result_batch = batch], batch, "signal")
             ELSE [w EXCEPT !.result_batch = batch]

\* progress_callback(result, completed, total); elapsed says whether
\* gui_update_interval has passed since last_update_time.
progress_callback(w, result, completed, total, elapsed) ==
    IF w.is_stopped THEN w
    ELSE IF completed <= 200 THEN HandOver(w, <<result>>, "signal")
    ELSE IF total > 50000 /\ completed <= 1000
    THEN HandOver(w, <<result>>, "signal")
    ELSE IF total > 10000 /\ completed <= 500
    THEN HandOver(w, <<result>>, "signal")
    ELSE LET batch == Append(w.result_batch, result)
             force_early_update == completed <= 200 \/ completed % 10 = 0
             should_update ==
                 \/ Len(batch) >= w.gui_update_batch_size
                 \/ elapsed
                 \/ completed = total
                 \/ force_early_update
         IN  IF should_update
             THEN HandOver([w EXCEPT !.result_batch = <<>>], batch, "signal")
             ELSE [w EXCEPT !.result_batch = batch]

\* process_accounts_threaded invokes the worker's progress_callback.
ProgressCallback ==
    /\ pc = "gui"
    /\ worker.calls < worker.total_accounts + 3
    /\ \E elapsed \in BOOLEAN :
           LET n == worker.calls + 1
           IN  worker' = [progress_callback(worker, n, CompletedOf(n),
                                            worker.total_accounts, elapsed)
                             EXCEPT !.calls = n]
    /\ UNCHANGED <<inputs, stop_event, pc, frame, queue, task, cbs,
                   extraction, history, sessions>>

\* The window's timer, and on_extraction_finished, call
\* flush_pending_updates, which takes what is pending and passes it to
\* on_batch_progress_updated itself.
FlushPendingUpdates ==
    /\ pc = "gui"
    /\ ~worker.is_stopped
    /\ worker.result_batch # <<>>
    /\ worker' = HandOver([worker EXCEPT !.result_batch = <<>>],
                          worker.result_batch, "flush")
    /\ UNCHANGED <<inputs, stop_event, pc, frame, queue, task, cbs,
                   extraction, history, sessions>>

\* ExtractionWorker.stop().
WorkerStop ==
    /\ pc = "gui"
    /\ ~worker.is_stopped
    /\ worker' = [worker EXCEPT !.is_stopped = TRUE]
    /\ UNCHANGED <<inputs, stop_event, pc, frame, queue, task, cbs,
                   extraction, history, sessions>>

(***************************************************************************)
(* Initial states.                                                         *)
(***************************************************************************)
InitLocals ==
    /\ i = 0 /\ initial_batch = 0 /\ total_count = 0
    /\ submitted_count = 0 /\ completed_count = 0
    /\ remaining_credentials = <<>> /\ remaining_index = 0
    /\ future_to_account = <<>> /\ scan = <<>> /\ completed_futures = <<>>
    /\ queue = <<>> /\ callbacks = <<>> /\ last_cb = NoCallback
    /\ at_stop = NotStopped /\ finished = <<>>

InitFrame == InitLocals /\ file = NoFile /\ worker = NoWorker

\* get_valid_credentials is about to be called on one of the files.
InitCredentials ==
    /\ credentials = <<>> /\ max_workers = 1 /\ transport = "full"
    /\ stop_event = FALSE /\ pc = "load" /\ InitLocals
    /\ callback = "returns" /\ sessions = <<>>
    /\ task = <<>>
    /\ text = <<>> /\ phone = NoneVal /\ xpc = "input"
    /\ file \in Files /\ worker = NoWorker

\* An ExtractionWorker has been constructed for some number of credentials
\* and is about to run.
InitWorker ==
    /\ credentials = <<>> /\ max_workers = 1 /\ transport = "full"
    /\ stop_event = FALSE /\ pc = "gui" /\ InitLocals
    /\ callback = "returns" /\ sessions = <<>>
    /\ task = <<>>
    /\ text = <<>> /\ phone = NoneVal /\ xpc = "input"
    /\ file = NoFile
    /\ \E total \in Totals, size \in BatchSizes :
           worker = NewWorker(total, size)

\* extract_phone_number is about to be called on one of the texts.
InitExtract ==
    /\ credentials = <<>> /\ max_workers = 1 /\ transport = "full"
    /\ stop_event = FALSE /\ pc = "direct" /\ InitFrame
    /\ callback = "returns" /\ sessions = <<>>
    /\ task = <<>>
    /\ text \in Texts /\ phone = NoneVal /\ xpc = "input"

\* extract_phone_number is about to be called twice on one of the shorter
\* texts, on a session that is open, or closed after some requests, or while
\* no session exists.
InitTwice ==
    /\ credentials = <<>> /\ max_workers = 1 /\ transport = "full"
    /\ stop_event = FALSE /\ pc = "direct" /\ InitFrame
    /\ callback = "returns"
    /\ sessions \in {<<>>, <<NewSession(1)>>,
                     <<[NewSession(1) EXCEPT !.state = "closed",
                                             !.users = {1},
                                             !.requests = 3]>>}
    /\ task = <<>>
    /\ text \in TextsOf(TwiceChunks) /\ phone = NoneVal /\ xpc = "input"

\* extract_phone_number is about to be called on a text with several numbers.
InitOrder ==
    /\ credentials = <<>> /\ max_workers = 1 /\ transport = "full"
    /\ stop_event = FALSE /\ pc = "direct" /\ InitFrame
    /\ callback = "returns" /\ sessions = <<>>
    /\ task = <<>>
    /\ text \in OrderTextsOf(OrderLen) /\ phone = NoneVal /\ xpc = "input"

\* process_single_account is about to be called for one credential pair.
InitAccount ==
    /\ credentials = <<Cred(1)>> /\ max_workers = 1
    /\ transport = "full"
    /\ stop_event = FALSE /\ pc = "direct" /\ InitFrame
    /\ callback = "returns" /\ sessions = <<>>
    /\ task = <<[NewTask EXCEPT !.st = "called",
                                !.username = Cred(1)[1],
                                !.password = Cred(1)[2]]>>
    /\ text = <<>> /\ phone = NoneVal /\ xpc = "idle"

\* process_accounts_threaded is about to be called on a fresh PhoneExtractor:
\* on at most one credential pair against every behaviour of the transport,
\* or on more pairs against the server of SmallTransport.
InitRun ==
    /\ \E n \in 0..MaxCreds : credentials = [k \in 1..n |-> Cred(k)]
    /\ max_workers \in 1..MaxWorkers
    /\ transport = IF Len(credentials) <= 1 THEN "full" ELSE "small"
    /\ stop_event = FALSE /\ pc = "start" /\ InitFrame
    /\ callback = "returns" /\ sessions = <<>>
    /\ task = [k \in 1..Len(credentials) |-> NewTask]
    /\ text = <<>> /\ phone = NoneVal /\ xpc = "idle"

\* process_accounts_threaded is about to be called with one worker on up to
\* DeepCreds pairs, more than the 5 * max_workers the loop keeps in flight,
\* against the server of TinyTransport.
InitDeep ==
    /\ \E n \in 0..DeepCreds : credentials = [k \in 1..n |-> Cred(k)]
    /\ max_workers = 1
    /\ transport = "tiny"
    /\ stop_event = FALSE /\ pc = "start" /\ InitFrame
    /\ callback = "returns" /\ sessions = <<>>
    /\ task = [k \in 1..Len(credentials) |-> NewTask]
    /\ text = <<>> /\ phone = NoneVal /\ xpc = "idle"

\* process_accounts_threaded is about to be called on up to MaxCreds pairs
\* against the server of TinyTransport.
InitTiny ==
    /\ \E n \in 0..MaxCreds : credentials = [k \in 1..n |-> Cred(k)]
    /\ max_workers \in 1..MaxWorkers
    /\ transport = "tiny"
    /\ stop_event = FALSE /\ pc = "start" /\ InitFrame
    /\ callback = "returns" /\ sessions = <<>>
    /\ task = [k \in 1..Len(credentials) |-> NewTask]
    /\ text = <<>> /\ phone = NoneVal /\ xpc = "idle"

\* process_accounts_threaded is about to be called, against the server of
\* TinyTransport, with a callback that can raise when it is handed the result
\* of an attempt.
InitCallback ==
    /\ \E n \in 0..MaxCreds : credentials = [k \in 1..n |-> Cred(k)]
    /\ max_workers \in 1..MaxWorkers
    /\ transport = "tiny"
    /\ stop_event = FALSE /\ pc = "start" /\ InitFrame
    /\ callback = "raises" /\ sessions = <<>>
    /\ task = [k \in 1..Len(credentials) |-> NewTask]
    /\ text = <<>> /\ phone = NoneVal /\ xpc = "idle"

(***************************************************************************)
(* process_accounts_threaded: the control loop.                            *)
(***************************************************************************)
\* self.callback(result, completed, total); future is 0 for an announcement.
Invoked(seq, future, result, completed, total) ==
    Append(seq, [future |-> future, username |-> result.username,
                 password |-> result.password,
                 completed |-> completed, total |-> total])

Callback(future, result, completed, total) ==
    /\ callbacks' = Invoked(callbacks, future, result, completed, total)
    /\ last_cb' = [result |-> result, completed |-> completed, total |-> total]

Announcement(message) ==
    PhoneResult(EmptyStr, EmptyStr, EmptyStr, FALSE, message, FALSE)

Min(a, b) == IF a < b THEN a ELSE b

\* A submission whose future is not entered in future_to_account.
SubmitUntracked(k, cred) ==
    /\ task' = [task EXCEPT ![k] = [NewTask EXCEPT !.st = "queued",
                                                   !.username = cred[1],
                                                   !.password = cred[2]]]
    /\ queue' = Append(queue, k)
    /\ future_to_account' = future_to_account
    /\ submitted_count' = submitted_count + 1

\* executor.submit(self.process_single_account, username, password) for the
\* credential at position k, and the bookkeeping that follows it.
Submit(k, cred) ==
    /\ task' = [task EXCEPT ![k] = [NewTask EXCEPT !.st = "queued",
                                                   !.username = cred[1],
                                                   !.password = cred[2]]]
    /\ queue' = Append(queue, k)
    /\ future_to_account' =
           Append(future_to_account,
                  [future |-> k, username |-> cred[1], password |-> cred[2],
                   index |-> k - 1])
    /\ submitted_count' = submitted_count + 1

\* A start that clears the stop event for the new run.
AnnounceStartClears ==
    /\ pc = "start"
    /\ completed_count' = 0
    /\ total_count' = Len(credentials)
    /\ Callback(0, Announcement("Starting extraction..."), 0, Len(credentials))
    /\ pc' = "announce_submit"
    /\ stop_event' = FALSE
    /\ UNCHANGED <<sessions, inputs, worker, i, initial_batch, submitted_count,
                   remaining_credentials, remaining_index, future_to_account,
                   scan, completed_futures, queue, task, extraction,
                   history>>

\* The counters are set and the start is announced.
AnnounceStart ==
    /\ pc = "start"
    /\ completed_count' = 0
    /\ total_count' = Len(credentials)
    /\ Callback(0, Announcement("Starting extraction..."), 0, Len(credentials))
    /\ pc' = "announce_submit"
    /\ UNCHANGED <<sessions, inputs, worker, stop_event, i, initial_batch, submitted_count,
                   remaining_credentials, remaining_index, future_to_account,
                   scan, completed_futures, queue, task, extraction,
                   history>>

\* The pool is created, the size of the initial batch computed and announced.
AnnounceSubmit ==
    /\ pc = "announce_submit"
    /\ future_to_account' = <<>>
    /\ submitted_count' = 0
    /\ initial_batch' = Min(max_workers * 3, Len(credentials))
    /\ Callback(0, Announcement("Submitting first "
                                \o ToString(initial_batch') \o " tasks..."),
                0, total_count)
    /\ i' = 0
    /\ pc' = "burst_check"
    /\ UNCHANGED <<sessions, inputs, worker, stop_event, total_count, completed_count,
                   remaining_credentials, remaining_index,
                   scan, completed_futures, queue, task, extraction,
                   history>>

\* A burst that goes straight to the loop when there is nothing to submit.
BurstCheckSkipsEmpty ==
    /\ pc = "burst_check"
    /\ pc' = IF i < initial_batch /\ ~stop_event THEN "burst_submit"
             ELSE IF initial_batch = 0 THEN "loop_test"
             ELSE "announce_running"
    /\ UNCHANGED <<sessions, inputs, worker, stop_event, frame, queue, task, cbs,
                   extraction, history>>

\* for i in range(initial_batch): the test of the stop event.
BurstCheck ==
    /\ pc = "burst_check"
    /\ pc' = IF i < initial_batch /\ ~stop_event THEN "burst_submit"
             ELSE "announce_running"
    /\ UNCHANGED <<sessions, inputs, worker, stop_event, frame, queue, task, cbs, extraction,
                   history>>

\* The body of the first loop after its test.
BurstSubmit ==
    /\ pc = "burst_submit"
    /\ Submit(i + 1, credentials[i + 1])
    /\ i' = i + 1
    /\ pc' = "burst_check"
    /\ UNCHANGED <<sessions, inputs, worker, stop_event, initial_batch, total_count,
                   completed_count, remaining_credentials, remaining_index,
                   scan, completed_futures, cbs, extraction, history>>

\* A copy of the remaining credentials that leaves out the first of them.
AnnounceRunningSkipsOne ==
    /\ pc = "announce_running"
    /\ Callback(0, Announcement("Tasks submitted - awaiting first responses..."),
                0, total_count)
    /\ remaining_credentials' =
           SubSeq(credentials, initial_batch + 2, Len(credentials))
    /\ remaining_index' = initial_batch + 1
    /\ pc' = "loop_test"
    /\ UNCHANGED <<sessions, inputs, worker, stop_event, i, initial_batch, total_count,
                   submitted_count, completed_count, future_to_account,
                   scan, completed_futures, queue, task, extraction,
                   history>>

\* The third announcement, and the copy of the credentials not yet submitted.
AnnounceRunning ==
    /\ pc = "announce_running"
    /\ Callback(0, Announcement("Tasks submitted - awaiting first responses..."),
                0, total_count)
    /\ remaining_credentials' =
           SubSeq(credentials, initial_batch + 1, Len(credentials))
    /\ remaining_index' = initial_batch
    /\ pc' = "loop_test"
    /\ UNCHANGED <<sessions, inputs, worker, stop_event, i, initial_batch, total_count,
                   submitted_count, completed_count, future_to_account,
                   scan, completed_futures, queue, task, extraction,
                   history>>

\* The loop that only waits while credentials remain to be submitted.
LoopTestNoWait ==
    /\ pc = "loop_test"
    /\ pc' = IF remaining_credentials # <<>> /\ ~stop_event
             THEN "topup_test" ELSE "shutdown"
    /\ UNCHANGED <<sessions, inputs, worker, stop_event, frame, queue, task, cbs, extraction,
                   history>>

\* while future_to_account or remaining_credentials, and the test of the
\* stop event that breaks out of it.
LoopTest ==
    /\ pc = "loop_test"
    /\ pc' = IF (future_to_account # <<>> \/ remaining_credentials # <<>>)
                /\ ~stop_event
             THEN "topup_test" ELSE "shutdown"
    /\ UNCHANGED <<sessions, inputs, worker, stop_event, frame, queue, task, cbs, extraction,
                   history>>

\* The inner while without its test of the stop event.
TopUpTestIgnoresStop ==
    /\ pc = "topup_test"
    /\ IF /\ Len(future_to_account) < max_workers * 5
          /\ remaining_credentials # <<>>
       THEN /\ pc' = "topup_submit"
            /\ UNCHANGED <<scan, completed_futures>>
       ELSE /\ pc' = IF future_to_account = <<>> THEN "loop_test" ELSE "poll"
            /\ scan' = [k \in DOMAIN future_to_account |->
                            future_to_account[k].future]
            /\ completed_futures' = <<>>
    /\ UNCHANGED <<sessions, inputs, worker, stop_event, i, initial_batch, total_count,
                   submitted_count, completed_count, remaining_credentials,
                   remaining_index, future_to_account, queue, task, cbs,
                   extraction, history>>

\* The inner while without a limit on the futures kept.
TopUpTestNoCap ==
    /\ pc = "topup_test"
    /\ IF /\ remaining_credentials # <<>>
          /\ ~stop_event
       THEN /\ pc' = "topup_submit"
            /\ UNCHANGED <<scan, completed_futures>>
       ELSE /\ pc' = IF future_to_account = <<>> THEN "loop_test" ELSE "poll"
            /\ scan' = [k \in DOMAIN future_to_account |->
                            future_to_account[k].future]
            /\ completed_futures' = <<>>
    /\ UNCHANGED <<sessions, inputs, worker, stop_event, i, initial_batch, total_count,
                   submitted_count, completed_count, remaining_credentials,
                   remaining_index, future_to_account, queue, task, cbs,
                   extraction, history>>

\* The inner while submitting while at most 5 * max_workers are kept.
TopUpTestOffByOne ==
    /\ pc = "topup_test"
    /\ IF /\ Len(future_to_account) <= max_workers * 5
          /\ remaining_credentials # <<>>
          /\ ~stop_event
       THEN /\ pc' = "topup_submit"
            /\ UNCHANGED <<scan, completed_futures>>
       ELSE /\ pc' = IF future_to_account = <<>> THEN "loop_test" ELSE "poll"
            /\ scan' = [k \in DOMAIN future_to_account |->
                            future_to_account[k].future]
            /\ completed_futures' = <<>>
    /\ UNCHANGED <<sessions, inputs, worker, stop_event, i, initial_batch, total_count,
                   submitted_count, completed_count, remaining_credentials,
                   remaining_index, future_to_account, queue, task, cbs,
                   extraction, history>>

\* The inner while and its test of the stop event; leaving it, the loop
\* over list(future_to_account.keys()) begins.  With no future to look at,
\* nothing has completed: the loop sleeps and starts over.
TopUpTest ==
    /\ pc = "topup_test"
    /\ IF /\ Len(future_to_account) < max_workers * 5
          /\ remaining_credentials # <<>>
          /\ ~stop_event
       THEN /\ pc' = "topup_submit"
            /\ UNCHANGED <<scan, completed_futures>>
       ELSE /\ pc' = IF future_to_account = <<>> THEN "loop_test" ELSE "poll"
            /\ scan' = [k \in DOMAIN future_to_account |->
                            future_to_account[k].future]
            /\ completed_futures' = <<>>
    /\ UNCHANGED <<sessions, inputs, worker, stop_event, i, initial_batch, total_count,
                   submitted_count, completed_count, remaining_credentials,
                   remaining_index, future_to_account, queue, task, cbs,
                   extraction, history>>

\* remaining_credentials.pop(0) and the submission of that pair.
\* A top-up that pops the pair from the caller's list as well.
TopUpSubmitPopsInput ==
    /\ pc = "topup_submit"
    /\ Submit(remaining_index + 1, Head(remaining_credentials))
    /\ remaining_credentials' = Tail(remaining_credentials)
    /\ credentials' = SubSeq(credentials, 1, remaining_index)
                          \o Tail(remaining_credentials)
    /\ remaining_index' = remaining_index + 1
    /\ pc' = "topup_test"
    /\ UNCHANGED <<sessions, max_workers, transport, callback, file, worker,
                   stop_event, i,
                   initial_batch, total_count, completed_count, scan,
                   completed_futures, cbs, extraction, history>>

\* remaining_credentials.pop(0) takes the next pair from the copy made of the
\* credentials, and the pair is submitted.
TopUpSubmit ==
    /\ pc = "topup_submit"
    /\ Submit(remaining_index + 1, Head(remaining_credentials))
    /\ remaining_credentials' = Tail(remaining_credentials)
    /\ remaining_index' = remaining_index + 1
    /\ pc' = "topup_test"
    /\ UNCHANGED <<sessions, inputs, worker, stop_event, i, initial_batch, total_count,
                   completed_count, scan, completed_futures, cbs, extraction,
                   history>>

\* A poll that puts a future found done before those found earlier.
PollPrepends ==
    /\ pc = "poll"
    /\ scan # <<>>
    /\ completed_futures' =
           IF task[Head(scan)].st = "done"
           THEN <<Head(scan)>> \o completed_futures ELSE completed_futures
    /\ scan' = Tail(scan)
    /\ pc' = IF scan' # <<>> THEN "poll"
             ELSE IF completed_futures' = <<>> THEN "loop_test" ELSE "collect"
    /\ UNCHANGED <<sessions, inputs, worker, stop_event, i, initial_batch, total_count,
                   submitted_count, completed_count, remaining_credentials,
                   remaining_index, future_to_account, queue, task, cbs,
                   extraction, history>>

\* A poll that finds no future done.
PollSeesNothing ==
    /\ pc = "poll"
    /\ scan # <<>>
    /\ completed_futures' = completed_futures
    /\ scan' = Tail(scan)
    /\ pc' = IF scan' # <<>> THEN "poll"
             ELSE IF completed_futures' = <<>> THEN "loop_test" ELSE "collect"
    /\ UNCHANGED <<sessions, inputs, worker, stop_event, i, initial_batch, total_count,
                   submitted_count, completed_count, remaining_credentials,
                   remaining_index, future_to_account, queue, task, cbs,
                   extraction, history>>

\* future.done() for the next future of the list.  After the last one the
\* completed futures are collected; when there is none, the loop sleeps
\* (time.sleep) and starts over.
Poll ==
    /\ pc = "poll"
    /\ scan # <<>>
    /\ completed_futures' =
           IF task[Head(scan)].st = "done"
           THEN Append(completed_futures, Head(scan)) ELSE completed_futures
    /\ scan' = Tail(scan)
    /\ pc' = IF scan' # <<>> THEN "poll"
             ELSE IF completed_futures' = <<>> THEN "loop_test" ELSE "collect"
    /\ UNCHANGED <<sessions, inputs, worker, stop_event, i, initial_batch, total_count,
                   submitted_count, completed_count, remaining_credentials,
                   remaining_index, future_to_account, queue, task, cbs,
                   extraction, history>>

\* A pop that leaves the future in future_to_account.
PopNothing(f2a, future) == f2a

\* future_to_account.pop(future)
Pop(f2a, future) == SelectSeq(f2a, LAMBDA e : e.future # future)

\* Counts that are not incremented, or incremented twice.
NextCompletedStuck(count) == count

NextCompletedTwice(count) == count + 2

\* The count a collected attempt is reported with.
NextCompleted(count) == count + 1

\* The pair future_to_account keeps for a future.
Account(f2a, future) == CHOOSE e \in {f2a[k] : k \in DOMAIN f2a} : e.future = future

\* A result for a raising future that names no account.
FutureResultAnonymous(tk, account) ==
    IF tk.exception # "none"
    THEN PhoneResult(EmptyStr, EmptyStr, NoneVal, FALSE,
                     "Future exception: " \o tk.exception, FALSE)
    ELSE tk.result

\* future.result(), and the result built in its place when it raises.
FutureResult(tk, account) ==
    IF tk.exception # "none"
    THEN PhoneResult(account.username, account.password, NoneVal, FALSE,
                     "Future exception: " \o tk.exception, FALSE)
    ELSE tk.result

\* Whether an invocation of the callback with an attempt's result raises.
CallbackRaises == IF callback = "raises" THEN {FALSE, TRUE} ELSE {FALSE}

\* The except branch of the loop body: entered when future.result() raised,
\* and also when the callback of the try branch raised; it builds a result
\* from the exception and hands it to the callback.
ExceptResult(tk, account, raised) ==
    IF tk.exception = "none" /\ raised
    THEN <<PhoneResult(account.username, account.password, NoneVal, FALSE,
                       "Future exception: " \o "callback", FALSE)>>
    ELSE <<>>

\* One iteration of the loop over completed_futures: the future is popped,
\* counted, and its result handed to the callback; an exception of the try
\* branch leads to the except branch, and an exception of the except branch
\* leaves the loop and the with block.  Something was collected, so after
\* the last iteration the loop starts over without sleeping.
Collect ==
    /\ pc = "collect"
    /\ completed_futures # <<>>
    /\ LET future == Head(completed_futures)
           account == Account(future_to_account, future)
           result == FutureResult(task[future], account)
       IN  /\ future_to_account' = Pop(future_to_account, future)
           /\ completed_count' = NextCompleted(completed_count)
           /\ \E raised \in CallbackRaises, again \in CallbackRaises :
                  LET second == ExceptResult(task[future], account, raised)
                      first == Invoked(callbacks, future, result,
                                       completed_count', total_count)
                      thrown == IF second = <<>> THEN raised ELSE again
                  IN  /\ callbacks' =
                             IF second = <<>> THEN first
                             ELSE Invoked(first, future, second[1],
                                          completed_count', total_count)
                      /\ last_cb' =
                             [result |-> IF second = <<>> THEN result
                                         ELSE second[1],
                              completed |-> completed_count',
                              total |-> total_count]
                      /\ second = <<>> => again = raised
                      /\ pc' = IF thrown THEN "unwind"
                               ELSE IF Tail(completed_futures) = <<>>
                               THEN "loop_test" ELSE "collect"
           /\ task' = [task EXCEPT ![future] =
                           [NewTask EXCEPT !.st = "collected",
                                           !.session = task[future].session,
                                           !.exception =
                                               task[future].exception]]
           /\ sessions' = IF task[future].sid = 0 THEN sessions
                          ELSE [sessions EXCEPT ![task[future].sid] =
                                    [NewSession(@.owner) EXCEPT
                                         !.state = "closed"]]
    /\ finished' = SelectSeq(finished,
                           LAMBDA f : f # Head(completed_futures))
    /\ completed_futures' = Tail(completed_futures)
    /\ UNCHANGED <<inputs, worker, stop_event, i, initial_batch, total_count,
                   submitted_count, remaining_credentials, remaining_index,
                   scan, queue, extraction, at_stop>>

\* A with block that is left at once.
ShutdownNoWait ==
    /\ pc \in {"shutdown", "unwind"}
    /\ pc' = IF pc = "shutdown" THEN "returned" ELSE "raised"
    /\ UNCHANGED <<sessions, inputs, worker, stop_event, frame, queue, task, cbs,
                   extraction, history>>

\* The end of the with block, reached by the break or the end of the loop,
\* or by an exception on its way out: shutdown(wait=True) returns when every
\* submitted attempt has run; then the call returns, or raises.
Shutdown ==
    /\ pc \in {"shutdown", "unwind"}
    /\ queue = <<>>
    /\ \A t \in DOMAIN task : task[t].st \notin Running
    /\ pc' = IF pc = "shutdown" THEN "returned" ELSE "raised"
    /\ UNCHANGED <<sessions, inputs, worker, stop_event, frame, queue, task, cbs,
                   extraction, history>>

(***************************************************************************)
(* The worker pool: max_workers threads take the queued attempts in the    *)
(* order of their submission.                                              *)
(***************************************************************************)
Busy == Cardinality({t \in DOMAIN task : task[t].st \in Running})

\* A pool that starts a thread for every queued attempt.
PoolRunUnbounded ==
    /\ queue # <<>>
    /\ \E client \in Answers.client :
           task' = [task EXCEPT ![Head(queue)] =
                        Opened(EnterAccount(@, stop_event, client))]
    /\ Finish(Head(queue))
    /\ Sessions(Head(queue))
    /\ queue' = Tail(queue)
    /\ UNCHANGED <<inputs, worker, stop_event, pc, frame, cbs, extraction,
                   at_stop>>

\* A free thread takes the next attempt, which makes its entry check.
PoolRun ==
    /\ queue # <<>>
    /\ Busy < max_workers
    /\ \E client \in Answers.client :
           task' = [task EXCEPT ![Head(queue)] =
                        Opened(EnterAccount(@, stop_event, client))]
    /\ Finish(Head(queue))
    /\ Sessions(Head(queue))
    /\ queue' = Tail(queue)
    /\ UNCHANGED <<inputs, worker, stop_event, pc, frame, cbs, extraction,
                   at_stop>>

\* A free thread takes the next attempt and the call raises outside the
\* protection of its try statement: the future holds the exception.
PoolFault ==
    /\ queue # <<>>
    /\ Busy < max_workers
    /\ task' = [task EXCEPT ![Head(queue)] =
                    [@ EXCEPT !.st = "done", !.exception = "fault"]]
    /\ Finish(Head(queue))
    /\ Sessions(Head(queue))
    /\ queue' = Tail(queue)
    /\ UNCHANGED <<inputs, worker, stop_event, pc, frame, cbs, extraction, at_stop>>

NextExtract == Extract

NextTwice == Extract \/ ExtractAgain

NextCredentials == GetValidCredentials

NextWorker == ProgressCallback \/ FlushPendingUpdates \/ WorkerStop

NextAccount ==
    \/ Stop
    \/ CallAccount(1)
    \/ GetLoginPage(1)
    \/ PerformLogin(1)
    \/ GetOrderHistory(1)
    \/ GetCustomerAddress(1)

Init == InitRun

Next ==
    \/ Stop
    \/ AnnounceStart
    \/ AnnounceSubmit
    \/ BurstCheck
    \/ BurstSubmit
    \/ AnnounceRunning
    \/ LoopTest
    \/ TopUpTest
    \/ TopUpSubmit
    \/ Poll
    \/ Collect
    \/ Shutdown
    \/ PoolRun
    \/ \E t \in DOMAIN task :
           \/ GetLoginPage(t)
           \/ PerformLogin(t)
           \/ GetOrderHistory(t)
           \/ GetCustomerAddress(t)

\* The steps of process_accounts_threaded itself.
Control ==
    \/ AnnounceStart
    \/ AnnounceSubmit
    \/ BurstCheck
    \/ BurstSubmit
    \/ AnnounceRunning
    \/ LoopTest
    \/ TopUpTest
    \/ TopUpSubmit
    \/ Poll
    \/ Collect
    \/ Shutdown

\* The steps of the pool's threads against the server of TinyTransport,
\* where an attempt ends with its first request.
Workers ==
    \/ PoolRun
    \/ \E t \in DOMAIN task : GetLoginPage(t)

NextDeep ==
    \/ Stop
    \/ Control
    \/ Workers

NextFault ==
    \/ Stop
    \/ Control
    \/ Workers
    \/ PoolFault

SpecExtract == InitExtract /\ [][NextExtract]_vars

SpecTwice == InitTwice /\ [][NextTwice]_vars

SpecOrder == InitOrder /\ [][NextExtract]_vars

SpecCredentials == InitCredentials /\ [][NextCredentials]_vars

SpecWorker == InitWorker /\ [][NextWorker]_vars

SpecAccount == InitAccount /\ [][NextAccount]_vars

Spec == Init /\ [][Next]_vars

SpecDeep == InitDeep /\ [][NextDeep]_vars

SpecFault == InitTiny /\ [][NextFault]_vars

SpecCallback == InitCallback /\ [][NextDeep]_vars

\* The threads are scheduled fairly: the thread running the control loop
\* and the pool's threads each take their next step eventually.
SpecFair ==
    InitTiny /\ [][NextDeep]_vars /\ WF_vars(Control) /\ WF_vars(Workers)

(***************************************************************************)
(* The properties.                                                         *)
(***************************************************************************)
\* The callbacks that report an attempt: those with completedCount >= 1.
ResultCallbacks == SelectSeq(callbacks, LAMBDA c : c.completed >= 1)

\* C1: in a run in which stop() is never called, the attempt-result callbacks
\* carry the counts 1, 2, ... in that order, each carries the username and
\* password of the credential its attempt was submitted for, no attempt is
\* reported twice, and when the run has returned every input credential has
\* been reported exactly once.
C1_ExactlyOnceInOrder ==
    ~stop_event =>
        LET res == ResultCallbacks
        IN  /\ \A k \in DOMAIN res :
                   /\ res[k].completed = k
                   /\ res[k].future \in DOMAIN credentials
                   /\ res[k].username = credentials[res[k].future][1]
                   /\ res[k].password = credentials[res[k].future][2]
            /\ \A j, k \in DOMAIN res : res[j].future = res[k].future => j = k
            /\ pc = "returned" =>
                   /\ Len(res) = Len(credentials)
                   /\ \A n \in DOMAIN credentials :
                          \E k \in DOMAIN res : res[k].future = n

\* A run without stop() has returned after reporting its attempts in another
\* order than that of their submission.
C1_Witness ==
    /\ pc = "returned"
    /\ ~stop_event
    /\ \E k \in DOMAIN ResultCallbacks : ResultCallbacks[k].future # k

\* C2 as stated: over the whole sequence of invocations of the callback, each
\* completedCount is exactly 1 greater than that of the preceding invocation.
C2_EveryInvocationOneMore ==
    \A k \in 2..Len(callbacks) :
        callbacks[k].completed = callbacks[k - 1].completed + 1

\* C2, amended: the first three invocations (the announcements) pass
\* completedCount 0, and from the fourth invocation on each passes exactly 1
\* more than the preceding invocation.
C2_OneMoreAfterAnnouncements ==
    \A k \in 1..Len(callbacks) :
        callbacks[k].completed =
            IF k <= 3 THEN 0 ELSE callbacks[k - 1].completed + 1

\* Two attempts have been reported after the announcements.
C2_Witness ==
    /\ Len(callbacks) >= 5
    /\ callbacks[5].completed = 2

\* C3 as stated: when stop() was called while the run was going on (after a
\* submission, so after the run had begun), the run has returned only after
\* an invocation of the callback with completedCount = totalCount.
C3_StoppedRunReachesTotal ==
    (pc = "returned" /\ stop_event /\ submitted_count >= 1) =>
        last_cb.completed = total_count

\* C3, amended: when the run has returned, the last completedCount passed is
\* the number of attempts collected, which is at most totalCount; it equals
\* totalCount when stop() was never called, and may be less when it was.
C3_ReachesTotalUnlessStopped ==
    pc = "returned" =>
        /\ last_cb.completed = completed_count
        /\ completed_count = Len(ResultCallbacks)
        /\ completed_count <= total_count
        /\ ~stop_event => completed_count = total_count

\* A run stopped after a submission has returned short of totalCount.
C3_Witness ==
    /\ pc = "returned"
    /\ stop_event
    /\ submitted_count >= 1
    /\ last_cb.completed < total_count

\* success=true implies a phone and banned=false; banned=true implies
\* success=false and no phone.
ResultInvariant(r) ==
    /\ r.success => (r.phone \notin {NoneVal, EmptyStr} /\ ~r.banned)
    /\ r.banned => (~r.success /\ r.phone = NoneVal)

\* C4: every result an attempt has returned, and every result handed to the
\* callback, satisfies: success implies phone present and not banned; banned
\* implies no success and phone absent.
C4_ResultInvariant ==
    /\ \A t \in DOMAIN task :
           task[t].st = "done" => ResultInvariant(task[t].result)
    /\ last_cb # NoCallback => ResultInvariant(last_cb.result)

\* A banned result has been handed to the callback.
C4_Witness ==
    /\ last_cb.completed >= 1
    /\ last_cb.result.banned

\* Exactly nine digits, the first of them 6.
IsMobileNumber(s) ==
    /\ Len(s) = 9
    /\ \A k \in 1..9 : IsDigit(s[k])
    /\ s[1] = "6"

\* C5: extract_phone_number returns None or a string of exactly 9 digits
\* that starts with 6, whatever the text.
C5_NoneOrMobile ==
    xpc = "done" => (phone = NoneVal \/ IsMobileNumber(phone))

\* A number was returned for a text that also holds a number starting with 9.
C5_Witness ==
    /\ xpc = "done"
    /\ phone # NoneVal
    /\ \E k \in 1..Len(text) : Core(text, k, "8")

\* The patterns with a match in the text, and those with a validated one.
Matching(s) == {k \in DOMAIN Patterns : FindAll(Patterns[k], s) # <<>>}

Validating(s) ==
    {k \in DOMAIN Patterns : FirstValid(FindAll(Patterns[k], s)) # NoneVal}

Least(S) == CHOOSE k \in S : \A j \in S : k <= j

\* C6 as stated: when the first pattern that has any match has no validated
\* match, the result is None, whatever the later patterns match.
C6_StopsAtFirstMatchingPattern ==
    (/\ xpc = "done"
     /\ Matching(text) # {}
     /\ Least(Matching(text)) \notin Validating(text)) => phone = NoneVal

\* C6, amended: a pattern whose matches all fail validation is passed over:
\* the result is the first validated value of the first pattern, in priority
\* order, that has one, and None only if no pattern has a validated match.
C6_FallsThroughToLaterPatterns ==
    xpc = "done" =>
        IF Validating(text) = {} THEN phone = NoneVal
        ELSE phone = FirstValid(FindAll(Patterns[Least(Validating(text))],
                                        text))

\* A number was returned although an earlier pattern had matches, none valid.
C6_Witness ==
    /\ xpc = "done"
    /\ phone # NoneVal
    /\ Least(Matching(text)) < Least(Validating(text))

Operations ==
    <<"get_login_page", "perform_login", "get_order_history",
      "get_customer_address">>

Denied(r) == ~r.exc /\ r.status = 401

\* C7: once one of the four operations has seen status 401, the attempt is
\* over with banned=true, success=false and the error "IP/Account banned
\* (401)"; that operation is the last one called, and no operation is called
\* twice.
C7_DeniedEndsAttempt ==
    \A t \in DOMAIN task :
        /\ \A k \in DOMAIN task[t].resps :
               Denied(task[t].resps[k]) =>
                   /\ task[t].st = "done"
                   /\ task[t].result.banned
                   /\ ~task[t].result.success
                   /\ task[t].result.error = "IP/Account banned (401)"
                   /\ Len(task[t].calls) = k
        /\ \A j, k \in DOMAIN task[t].calls :
               task[t].calls[j] = task[t].calls[k] => j = k

\* The third operation, after two that went well, has seen status 401.
C7_Witness ==
    \E t \in DOMAIN task :
        /\ Len(task[t].resps) = 3
        /\ Denied(task[t].resps[3])

\* The attempt went on after perform_login: the operation returned ok.
LoginWentOn(tk) ==
    /\ Len(tk.calls) >= 2
    /\ ~(tk.st = "done" /\ Len(tk.calls) = 2)

\* C8 as stated: perform_login yields ok if and only if the final resolved
\* url is the order-history location.
C8_OkIffOnOrderHistory ==
    \A t \in DOMAIN task :
        Len(task[t].resps) >= 2 =>
            (LoginWentOn(task[t]) <=>
                 (~task[t].resps[2].exc /\ task[t].resps[2].url = HistoryUrl))

\* C8, amended: perform_login yields ok if and only if the request did not
\* raise, the status is not 401 and the resolved url contains
\* "sales/order/history" anywhere; a response with status 200 whose resolved
\* url is the login page yields success=false, banned=false and the error
\* "Login failed", and no later operation is called.
C8_OkIffUrlContainsHistory ==
    \A t \in DOMAIN task :
        Len(task[t].resps) >= 2 =>
            LET r == task[t].resps[2]
            IN  /\ LoginWentOn(task[t]) <=>
                       (/\ ~r.exc
                        /\ r.status # 401
                        /\ \E k \in DOMAIN r.url :
                               r.url[k] = "sales/order/history")
                /\ (~r.exc /\ r.status = 200 /\ r.url = LoginUrl) =>
                       /\ task[t].st = "done"
                       /\ ~task[t].result.success
                       /\ ~task[t].result.banned
                       /\ task[t].result.error = "Login failed"
                       /\ Len(task[t].calls) = 2

\* A login answered with status 200 on the login page.
C8_Witness ==
    \E t \in DOMAIN task :
        /\ Len(task[t].resps) >= 2
        /\ ~task[t].resps[2].exc
        /\ task[t].resps[2].status = 200
        /\ task[t].resps[2].url = LoginUrl

\* The outcome of the k-th operation on response r, read off the response.
StepOk(k, r) ==
    /\ ~r.exc
    /\ r.status # 401
    /\ IF k = 2 THEN \E n \in DOMAIN r.url : r.url[n] = "sales/order/history"
       ELSE r.status = 200

StepFailed(k, r) == ~StepOk(k, r) /\ ~Denied(r)

StepError ==
    <<"Failed to load login page", "Login failed",
      "Failed to access order history">>

\* C9: the operations are called in the fixed order, each at most once;
\* operation k+1 is called only if operation k returned ok; a failed outcome
\* of one of the first three ends the attempt with success=false,
\* banned=false and the reason of that step; a success result is produced
\* only after all four returned ok.
C9_TransitionTable ==
    \A t \in DOMAIN task :
        LET tk == task[t]
            n == Len(tk.calls)
        IN  /\ n <= 4
            /\ tk.calls = SubSeq(Operations, 1, n)
            /\ Len(tk.resps) = n
            /\ \A k \in 1..(n - 1) : StepOk(k, tk.resps[k])
            /\ (n >= 1 /\ tk.st # "done") => StepOk(n, tk.resps[n])
            /\ (tk.st = "login_page") <=> (n = 0 /\ tk.session = "open")
            /\ (tk.st = "login") => n = 1
            /\ (tk.st = "order") => n = 2
            /\ (tk.st = "address") => n = 3
            /\ (n \in 1..3 /\ StepFailed(n, tk.resps[n])) =>
                   /\ tk.st = "done"
                   /\ tk.result =
                          PhoneResult(tk.username, tk.password, NoneVal, FALSE,
                                      StepError[n], FALSE)
            /\ (tk.st = "done" /\ tk.result.success) =>
                   /\ n = 4
                   /\ \A k \in 1..4 : StepOk(k, tk.resps[k])

\* An attempt has ended at a failed third operation.
C9_Witness ==
    \E t \in DOMAIN task :
        /\ task[t].st = "done"
        /\ Len(task[t].calls) = 3
        /\ StepFailed(3, task[t].resps[3])

\* C10 as stated: a failed outcome of get_customer_address (the request
\* raised, or a status other than 200 and 401) gives a result that can be
\* told from the "no value found" result of a page that was fetched and
\* held no number.
C10_FailedFetchDistinguishable ==
    \A t \in DOMAIN task :
        (/\ task[t].st = "done"
         /\ Len(task[t].resps) = 4
         /\ StepFailed(4, task[t].resps[4])) =>
            task[t].result.error # "No phone number found"

\* C11: once stop() has set the event, no attempt is submitted to the pool:
\* the number of attempts submitted stays what it was when the event was set.
C11_NoSubmitAfterStop ==
    stop_event => submitted_count = at_stop.submitted

\* C12 (as stated): in a run in which stop() is called, the number of attempts
\* ever submitted is at most the size of future_to_account when the event was
\* set plus 5 * max_workers.
C12_StartedWithinInFlightPlusCap ==
    stop_event => submitted_count <= at_stop.in_flight + 5 * max_workers

\* C12: in a run in which stop() is called, the number of attempts ever
\* submitted is at most the number submitted when the event was set (the
\* attempts collected by then plus those in future_to_account) plus one, the
\* attempt whose test of the event had already passed; and an attempt
\* submitted after the event was set makes no request and opens no session.
C12_StartedWithinSubmittedPlusOne ==
    stop_event =>
        /\ at_stop.in_flight <= 5 * max_workers
        /\ submitted_count <= at_stop.submitted + 1
        /\ submitted_count <= Len(credentials)
        /\ \A t \in DOMAIN task :
               t > at_stop.submitted =>
                   /\ task[t].calls = <<>>
                   /\ task[t].session = "none"
                   /\ task[t].st = "done" =>
                          task[t].result.error = "Process stopped"

\* A cancelled run of more than 5 * max_workers pairs has returned after
\* submitting one attempt more than it had when the event was set.
C12_Witness ==
    /\ stop_event /\ pc = "returned"
    /\ Len(credentials) > 5 * max_workers
    /\ at_stop.submitted >= 5 * max_workers
    /\ submitted_count = at_stop.submitted + 1

\* The control loop has found a first attempt completed and has collected
\* none yet.
FirstObserved == completed_count = 0 /\ completed_futures # <<>>

\* C13 (as stated): when the control loop first finds an attempt completed,
\* at most min(3 * max_workers, total) attempts have been submitted.
C13_BurstOnlyBeforeFirstCompletion ==
    FirstObserved => submitted_count <= Min(3 * max_workers, Len(credentials))

\* C13: when the control loop first finds an attempt completed, at most
\* min(5 * max_workers, total) attempts have been submitted, and exactly that
\* many when stop() has not been called: the loop tops the futures up to
\* 5 * max_workers before it polls for the first time.
C13_ToppedUpBeforeFirstCompletion ==
    FirstObserved =>
        /\ submitted_count <= Min(5 * max_workers, Len(credentials))
        /\ ~stop_event =>
               submitted_count = Min(5 * max_workers, Len(credentials))

\* The first completion is found with 5 * max_workers attempts submitted,
\* more than the initial batch, and a pair still waiting.
C13_Witness ==
    /\ FirstObserved /\ ~stop_event
    /\ submitted_count = 5 * max_workers
    /\ submitted_count > initial_batch
    /\ remaining_credentials # <<>>

\* C15: future_to_account never holds more than 5 * max_workers attempts, and
\* when stop() has not been called the first loop has submitted exactly
\* min(3 * max_workers, total) attempts when it ends.
C15_InFlightCapAndBurst ==
    /\ Len(future_to_account) <= 5 * max_workers
    /\ (pc = "announce_running" /\ ~stop_event) =>
           /\ initial_batch = Min(3 * max_workers, Len(credentials))
           /\ submitted_count = initial_batch
           /\ Len(future_to_account) = initial_batch
           /\ \A k \in 1..initial_batch : task[k].st # "unsubmitted"

\* The loop holds 5 * max_workers futures and a pair it may not submit yet,
\* after a first loop that submitted 3 * max_workers.
C15_Witness ==
    /\ Len(future_to_account) = 5 * max_workers
    /\ remaining_credentials # <<>>
    /\ initial_batch = 3 * max_workers
    /\ pc = "poll"

\* Every credential has had its result delivered to the callback, once.
AllDelivered ==
    /\ Len(ResultCallbacks) = Len(credentials)
    /\ \A k \in DOMAIN credentials :
           \E j \in DOMAIN ResultCallbacks :
               /\ ResultCallbacks[j].future = k
               /\ ResultCallbacks[j].username = credentials[k][1]
               /\ ResultCallbacks[j].password = credentials[k][2]

\* C14: when the threads are scheduled fairly and stop() is never called,
\* process_accounts_threaded eventually returns, and by then every credential
\* has had its result delivered to the callback.  The event is never cleared,
\* so a run in which stop() is never called is one that never reaches a state
\* with the event set.
C14_EventuallyReturnsWithAll ==
    <>(stop_event \/ (pc = "returned" /\ AllDelivered))

\* A run of MaxCreds pairs has returned without stop(), and it delivered
\* a later pair's result before an earlier one's.
C14_Witness ==
    /\ pc = "returned" /\ ~stop_event /\ AllDelivered
    /\ Len(credentials) = MaxCreds
    /\ \E j \in DOMAIN ResultCallbacks : ResultCallbacks[j].future # j

\* The attempt a step reports to the callback, 0 when it reports none.
Reported ==
    IF Len(callbacks') > Len(callbacks) THEN callbacks'[Len(callbacks')].future
    ELSE 0

\* C16 (as stated): results are reported in the order in which the attempts
\* completed: the attempt a callback reports is, of the attempts that have
\* returned and are not yet reported, the one that returned first.
C16_CallbacksInCompletionOrder ==
    [][Reported # 0 => Reported = Head(finished)]_vars

\* C16: results are reported in the order in which the control loop found the
\* attempts completed, which follows submission, not completion, within one
\* pass over the futures: an attempt is reported only after it has returned,
\* the attempts one pass found completed are reported in the order of their
\* submission, and all of them before the loop polls again.
C16_CallbacksInObservationOrder ==
    /\ [][Reported # 0 =>
              /\ Reported = Head(completed_futures)
              /\ \E k \in DOMAIN finished : finished[k] = Reported]_vars
    /\ [](/\ \A j, k \in DOMAIN completed_futures :
                  j < k => completed_futures[j] < completed_futures[k]
          /\ \A k \in DOMAIN completed_futures :
                  task[completed_futures[k]].st = "done"
          /\ pc = "poll" /\ completed_futures # <<>> => scan # <<>>)

\* The second attempt submitted is about to be reported while the first is
\* still running.
C16_Witness ==
    /\ pc = "collect"
    /\ completed_futures # <<>> /\ Head(completed_futures) = 2
    /\ task[1].st \in Running

\* C17: an attempt entered while the stop event is set returns at once, with
\* success=false, banned=false and the error "Process stopped", without
\* creating a session or making a request.
C17_StoppedAtEntry ==
    [][\A t \in DOMAIN task :
           (/\ task[t].st \in {"called", "queued"}
            /\ stop_event
            /\ task'[t] # task[t]) =>
               /\ task'[t].st = "done"
               /\ task'[t].result =
                      PhoneResult(task[t].username, task[t].password, NoneVal,
                                  FALSE, "Process stopped", FALSE)
               /\ task'[t].session = "none"
               /\ task'[t].calls = <<>>]_vars

\* An attempt entered after stop() has returned "Process stopped".
C17_Witness ==
    \E t \in DOMAIN task :
        /\ stop_event /\ task[t].st = "done"
        /\ task[t].result.error = "Process stopped"
        /\ task[t].session = "none" /\ task[t].calls = <<>>

\* The session could not be built, or one of its requests raised.
SessionRaised(tk) ==
    \/ tk.session = "failed"
    \/ \E k \in DOMAIN tk.resps : tk.resps[k].exc

IsExceptionError(error) == \E d \in {"client"} : error = "Exception: " \o d

\* The error of an attempt whose step k did not return ok.
FailedOutcome ==
    <<"Failed to load login page", "Login failed",
      "Failed to access order history", "No phone number found">>

\* C18 (as stated): an attempt never lets an exception out, returns exactly
\* one result, and whenever building the session or a request made through
\* it raised, the result has success=false, banned=false and an error that
\* begins "Exception: ".
C18_EveryExceptionReported ==
    \A t \in DOMAIN task :
        /\ task[t].exception = "none"
        /\ (task[t].st = "done" /\ SessionRaised(task[t])) =>
               /\ ~task[t].result.success /\ ~task[t].result.banned
               /\ IsExceptionError(task[t].result.error)

\* C18: an attempt never lets an exception out and returns exactly one
\* result, which names its own pair and is never replaced.  When building
\* the session raised, the result has success=false, banned=false and an
\* error that begins "Exception: ".  When a request raised, the operation
\* that made it caught the exception itself: the attempt ends there with
\* success=false, banned=false and the error of that step.
C18_ExceptionsContained ==
    /\ [](\A t \in DOMAIN task :
             LET tk == task[t]
             IN  /\ tk.exception = "none"
                 /\ tk.st = "done" =>
                        /\ tk.result # NoResult
                        /\ tk.result.username = tk.username
                        /\ tk.result.password = tk.password
                 /\ tk.session = "failed" =>
                        /\ tk.st = "done" /\ tk.calls = <<>>
                        /\ ~tk.result.success /\ ~tk.result.banned
                        /\ tk.result.phone = NoneVal
                        /\ IsExceptionError(tk.result.error)
                 /\ \A k \in DOMAIN tk.resps :
                        tk.resps[k].exc =>
                            /\ tk.st = "done" /\ k = Len(tk.resps)
                            /\ ~tk.result.success /\ ~tk.result.banned
                            /\ tk.result.error = FailedOutcome[k])
    /\ [][\A t \in DOMAIN task :
              task[t].st = "done" => task'[t] = task[t]]_vars

\* An attempt whose session could not be built has returned its result.
C18_Witness ==
    \E t \in DOMAIN task :
        /\ task[t].session = "failed" /\ task[t].st = "done"
        /\ IsExceptionError(task[t].result.error)

\* C19: a session exists open only while its attempt is running: when the
\* attempt has returned, whatever its outcome, the session it created has
\* been closed, and every attempt that made a request had a session.
C19_SessionClosedOnReturn ==
    \A t \in DOMAIN task :
        /\ task[t].session = "open" <=> task[t].st \in Running
        /\ task[t].st = "done" =>
               task[t].session \in {"none", "failed", "closed"}
        /\ (task[t].st = "done" /\ task[t].calls # <<>>) =>
               task[t].session = "closed"

\* An attempt denied at its third operation has returned, its session closed.
C19_Witness ==
    \E t \in DOMAIN task :
        /\ task[t].st = "done" /\ task[t].session = "closed"
        /\ task[t].result.banned /\ Len(task[t].calls) = 3

\* The future about to be collected holds an exception.
CollectingFault ==
    /\ pc = "collect" /\ completed_futures # <<>>
    /\ task[Head(completed_futures)].exception # "none"

\* C20: when future.result() raises for an attempt, the step of the loop that
\* collects it hands the callback, once and with the next count, a failed result that carries the username
\* and password of that attempt; no other attempt is touched, the loop goes
\* on, and a run in which stop() is not called still delivers a result for
\* every credential before it returns.
C20_FaultIsolated ==
    /\ [][(CollectingFault /\ completed_futures' # completed_futures) =>
              LET future == Head(completed_futures)
              IN  /\ Len(callbacks') = Len(callbacks) + 1
                  /\ callbacks'[Len(callbacks')].future = future
                  /\ last_cb'.result =
                         PhoneResult(credentials[future][1],
                                     credentials[future][2], NoneVal, FALSE,
                                     "Future exception: " \o
                                         task[future].exception,
                                     FALSE)
                  /\ last_cb'.completed = completed_count + 1
                  /\ last_cb'.total = Len(credentials)
                  /\ \A t \in DOMAIN task : t # future => task'[t] = task[t]
                  /\ pc' \in {"collect", "loop_test"}
                  /\ remaining_credentials' = remaining_credentials]_vars
    /\ []((pc = "returned" /\ ~stop_event) => AllDelivered)

\* A run has returned after delivering every result, among them that of an
\* attempt whose future raised, followed by the results of other attempts.
C20_Witness ==
    /\ pc = "returned" /\ ~stop_event /\ AllDelivered
    /\ Len(credentials) >= 3
    /\ \E j \in DOMAIN ResultCallbacks :
           /\ j < Len(ResultCallbacks)
           /\ task[ResultCallbacks[j].future].exception = "fault"
           /\ task[ResultCallbacks[j + 1].future].exception = "none"

\* C21: cancellation does not preempt and the run drains.  stop() leaves
\* every attempt as it is; an attempt that has passed its entry check goes on
\* with its next request whether or not the event is set, and ends with an
\* outcome of its steps, never with "Process stopped" and never with an
\* exception; process_accounts_threaded does not return while a submitted
\* attempt is queued or executing.
C21_NonPreemptiveAndDrains ==
    /\ [](pc \in {"returned", "raised"} =>
              \A t \in DOMAIN task : task[t].st \notin Running \cup {"queued"})
    /\ [][/\ stop_event' # stop_event => task' = task
          /\ \A t \in DOMAIN task :
                 (task[t].st \in Running /\ task'[t] # task[t]) =>
                     /\ Len(task'[t].calls) = Len(task[t].calls) + 1
                     /\ task'[t].st \in Running \cup {"done"}
                     /\ task'[t].st = "done" =>
                            /\ task'[t].exception = "none"
                            /\ task'[t].result.error # "Process stopped"
                            /\ ResultInvariant(task'[t].result)]_vars

\* An attempt that was executing when stop() was called has gone on to find
\* a number, and the run has returned.
C21_Witness ==
    /\ pc = "returned" /\ stop_event
    /\ \E t \in at_stop.running :
           /\ task[t].st = "done"
           /\ task[t].result.success
           /\ Len(task[t].calls) = 4

\* C22: sessions are confined to their attempts.  Every attempt that gets
\* past its entry check holds a session object constructed for it, and no
\* attempt constructs two; a session carries requests of the attempt that
\* constructed it and of no other, so of one credential pair; and no session
\* carries a request after it was closed at the return of its attempt.
C22_SessionConfined ==
    /\ \A s \in DOMAIN sessions :
           /\ sessions[s].users \subseteq {sessions[s].owner}
           /\ ~sessions[s].late
           /\ \A r \in DOMAIN sessions :
                  sessions[r].owner = sessions[s].owner => r = s
    /\ \A t \in DOMAIN task :
           /\ task[t].session = "open" =>
                  /\ task[t].sid \in DOMAIN sessions
                  /\ sessions[task[t].sid].owner = t
                  /\ sessions[task[t].sid].state = "open"
           /\ (task[t].st = "done" /\ task[t].sid # 0) =>
                  /\ sessions[task[t].sid].owner = t
                  /\ sessions[task[t].sid].state = "closed"
                  /\ sessions[task[t].sid].requests = Len(task[t].calls)

\* Two attempts have run at the same time and returned, each on its own
\* session, and one more is at work on a third.
C22_Witness ==
    /\ \E s, r \in DOMAIN sessions :
           /\ s # r
           /\ sessions[s].state = "closed" /\ sessions[r].state = "closed"
           /\ sessions[s].users = {sessions[s].owner}
           /\ sessions[r].users = {sessions[r].owner}
           /\ sessions[s].requests = 4 /\ sessions[r].requests = 1
    /\ \E t \in DOMAIN task :
           task[t].st \in Running /\ sessions[task[t].sid].users = {t}

\* C23: one request per operation, no retry.  At every moment of an attempt
\* the operations it has invoked are the first ones of the four, each once
\* and in their order; every invocation has handed exactly one request to the
\* session, whether it was answered or raised; so the session of an attempt
\* carries at most four requests, one per step.
C23_OneRequestPerStep ==
    \A t \in DOMAIN task :
        LET tk == task[t]
        IN  /\ Len(tk.calls) <= 4
            /\ tk.calls = SubSeq(Operations, 1, Len(tk.calls))
            /\ Len(tk.resps) = Len(tk.calls)
            /\ tk.sid = 0 => tk.calls = <<>>
            /\ tk.sid # 0 =>
                   /\ sessions[tk.sid].requests = Len(tk.calls)
                   /\ sessions[tk.sid].requests <= 4

\* An attempt has ended after four requests, the last of which raised, and
\* its session has carried four requests.
C23_Witness ==
    /\ task[1].st = "done"
    /\ Len(task[1].calls) = 4
    /\ task[1].resps[4].exc
    /\ sessions[task[1].sid].requests = 4

\* C24: decoding never fails the address operation.  When the address
\* request is answered with status 200 the outcome of the attempt is the
\* outcome of the cascade on a text: on response.text when it can be read,
\* else on the decompressed content when the encoding is br and the brotli
\* module decodes it, else (module missing, decompression or strict decoding
\* raising, or another encoding) on the content decoded with replacement.
DecodedAs(b) ==
    IF ~b.text_raises THEN "text"
    ELSE IF b.encoding = "br" /\ b.brotli = "ok" THEN "decompressed"
    ELSE "replacement"

C24_DecodingNeverFails ==
    \A t \in DOMAIN task :
        LET tk == task[t]
        IN  (/\ tk.st = "done" /\ Len(tk.calls) = 4
             /\ ~tk.resps[4].exc /\ tk.resps[4].status = 200) =>
                LET b == tk.resps[4].body
                    decoded == IF DecodedAs(b) = "replacement" THEN b.raw
                               ELSE b.text
                    found == extract_phone_number(decoded)
                IN  tk.result =
                        IF found = NoneVal
                        THEN Failure(tk, "No phone number found")
                        ELSE PhoneResult(tk.username, tk.password, found,
                                         TRUE, NoError, FALSE)

\* The text of the response could not be read, its Brotli decoding raised,
\* and the number was found in the content decoded with replacement.
C24_Witness ==
    /\ task[1].st = "done" /\ Len(task[1].calls) = 4
    /\ task[1].resps[4].status = 200
    /\ task[1].resps[4].body.text_raises
    /\ task[1].resps[4].body.brotli = "raises"
    /\ task[1].result.success
    /\ task[1].result.phone = Mobile

\* The nine-digit sequences starting with 6 that stand directly between a
\* ">" and a "<" of the text.
Between(s) ==
    {SubSeq(s, k + 1, k + 9) : k \in
        {j \in 1..(Len(s) - 10) :
            /\ s[j] = ">" /\ s[j + 10] = "<" /\ s[j + 1] = "6"
            /\ \A d \in 1..9 : IsDigit(s[j + d])}}

\* Every number that some match of some pattern validates to.
AllValid(s) ==
    UNION {LET matches == FindAll(Patterns[k], s)
           IN  {Validate(matches[m]) : m \in DOMAIN matches} :
               k \in DOMAIN Patterns} \ {NoneVal}

\* C25: a nine-digit sequence starting with 6 directly between ">" and "<"
\* is extracted: when no match of any pattern validates to another number,
\* the result is that sequence.
C25_BetweenTagsExtracted ==
    xpc = "done" =>
        \A v \in Between(text) : AllValid(text) \subseteq {v} => phone = v

\* The text >612345678< has been searched and 612345678 returned.
C25_Witness ==
    /\ xpc = "done"
    /\ text = <<">">> \o Mobile \o <<"<">>
    /\ Between(text) = {Mobile}
    /\ phone = Mobile

\* No run of digits of the text starts with 6.
NoRunStartsWithSix(s) ==
    \A k \in DOMAIN s : s[k] = "6" => (k > 1 /\ IsDigit(s[k - 1]))

\* C26: a text whose digits offer no number starting with 6, such as
\* tel>912345678<, yields None: every value a pattern can yield begins where
\* a run of digits begins, so none passes the test of the leading 6.
C26_NoLeadingSixYieldsNone ==
    (xpc = "done" /\ NoRunStartsWithSix(text)) => phone = NoneVal

\* The text tel>912345678< has been searched, its tel pattern has matched,
\* and None was returned.
C26_Witness ==
    /\ xpc = "done"
    /\ text = Chunks[7] \o Landline \o <<"<">>
    /\ 3 \in Matching(text)
    /\ NoRunStartsWithSix(text)
    /\ phone = NoneVal

C28_CredentialsPassThrough ==
    /\ [](/\ credentials = [k \in 1..Len(credentials) |-> Cred(k)]
          /\ pc # "start" => Len(credentials) = total_count
          /\ \A t \in DOMAIN task :
                 task[t].st \in Running \cup {"queued", "done"} =>
                     /\ task[t].username = credentials[t][1]
                     /\ task[t].password = credentials[t][2]
                     /\ (task[t].st = "done" /\ task[t].exception = "none") =>
                            /\ task[t].result.username = credentials[t][1]
                            /\ task[t].result.password = credentials[t][2]
          /\ \A k \in DOMAIN ResultCallbacks :
                 LET c == ResultCallbacks[k]
                 IN  /\ c.username = credentials[c.future][1]
                     /\ c.password = credentials[c.future][2])
    /\ [][credentials' = credentials]_vars

\* A run on MaxCreds pairs with one worker has submitted the last pair from
\* the copy of the remaining ones, reported every pair and returned.
C28_Witness ==
    /\ pc = "returned" /\ max_workers = 1
    /\ Len(credentials) = MaxCreds /\ remaining_index = MaxCreds
    /\ Len(ResultCallbacks) = MaxCreds
    /\ \E k \in DOMAIN ResultCallbacks :
           /\ ResultCallbacks[k].future = MaxCreds
           /\ ResultCallbacks[k].username = Cred(MaxCreds)[1]

\* The attempts whose result was handed to the callback, once each.
DeliveredOnce(t) ==
    Cardinality({k \in DOMAIN ResultCallbacks :
                     ResultCallbacks[k].future = t}) = 1

NeverDelivered(t) ==
    \A k \in DOMAIN ResultCallbacks : ResultCallbacks[k].future # t

\* C29 as stated: when process_accounts_threaded has returned, the result of
\* every attempt that was submitted has been handed to the callback, also
\* when stop() was called.
C29_SubmittedAreDelivered ==
    pc = "returned" =>
        \A t \in DOMAIN task :
            task[t].st # "unsubmitted" =>
                task[t].st = "collected" /\ DeliveredOnce(t)

\* C29, amended: when process_accounts_threaded has returned, every attempt
\* that was submitted has run to its end; without stop() each has been
\* collected and its result handed to the callback once; after stop() the
\* attempts not collected when the loop saw the event have ended too, but
\* their results are dropped: they are still in future_to_account and were
\* never handed to the callback.
C29_DeliveredUnlessStopped ==
    pc = "returned" =>
        \A t \in DOMAIN task :
            task[t].st # "unsubmitted" =>
                \/ task[t].st = "collected" /\ DeliveredOnce(t)
                \/ /\ stop_event
                   /\ task[t].st = "done"
                   /\ NeverDelivered(t)
                   /\ \E k \in DOMAIN future_to_account :
                          future_to_account[k].future = t

\* A stopped run has returned: one attempt was reported, another had found a
\* number that was never handed to the callback.
C29_Witness ==
    /\ pc = "returned" /\ stop_event
    /\ \E t \in DOMAIN task : task[t].st = "collected" /\ DeliveredOnce(t)
    /\ \E t \in DOMAIN task :
           /\ task[t].st = "done" /\ task[t].result.success
           /\ NeverDelivered(t)

\* C30: the callback is invoked once per completed attempt, also when it
\* raises: no attempt is handed to the callback twice, and no two
\* invocations with a result carry the same completedCount.
C30_CallbackOncePerAttempt ==
    \A j, k \in DOMAIN ResultCallbacks :
        (\/ ResultCallbacks[j].future = ResultCallbacks[k].future
         \/ ResultCallbacks[j].completed = ResultCallbacks[k].completed)
            => j = k

\* C31: at most max_workers attempts execute at a time.  The attempts that
\* are past their entry check and have not returned are never more than the
\* size of the pool; the other attempts of the in-flight set that have not
\* returned are in the pool's queue, in the order of their submission, and
\* have made neither their entry check nor a request.
C31_AtMostWExecuting ==
    /\ Busy <= max_workers
    /\ \A t \in DOMAIN task :
           task[t].st = "queued" <=> \E k \in DOMAIN queue : queue[k] = t
    /\ \A j, k \in DOMAIN queue : j < k => queue[j] < queue[k]
    /\ \A k \in DOMAIN queue :
           LET tk == task[queue[k]]
           IN  /\ tk.session = "none" /\ tk.sid = 0
               /\ tk.calls = <<>> /\ tk.result = NoResult
               /\ \E e \in DOMAIN future_to_account :
                      future_to_account[e].future = queue[k]

\* Both threads of a pool of two are at work and two more attempts wait.
C31_Witness ==
    /\ max_workers = 2 /\ Busy = 2
    /\ Len(queue) = 2
    /\ Len(future_to_account) = 4

\* A match with every character removed that is not a digit or "+".
Cleaned(m) == SelectSeq(m, LAMBDA c : IsDigit(c) \/ c = "+")

\* Where nine consecutive digits begin in a cleaned match.
NineAt(c) == {n \in 1..(Len(c) - 8) : \A d \in 0..8 : IsDigit(c[n + d])}

\* A match qualifies when its cleaned value has at least 9 characters and
\* the first nine consecutive digits in it start with 6.
Qualifies(m) ==
    LET c == Cleaned(m)
    IN  /\ Len(c) >= 9
        /\ NineAt(c) # {}
        /\ c[Least(NineAt(c))] = "6"

NineOf(m) ==
    LET c == Cleaned(m)
    IN  SubSeq(c, Least(NineAt(c)), Least(NineAt(c)) + 8)

\* The matches of pattern k that qualify, by their position among its matches.
Qualifying(k, s) ==
    LET matches == FindAll(Patterns[k], s)
    IN  {j \in DOMAIN matches : Qualifies(matches[j])}

\* C32: within the winning pattern, the first pattern that has a qualifying
\* match, the matches are taken in the order the pattern produced them and
\* the result is the nine digits of the earliest one that qualifies; when no
\* pattern has a qualifying match the result is None.
C32_EarliestQualifyingMatch ==
    xpc = "done" =>
        LET winners == {k \in DOMAIN Patterns : Qualifying(k, text) # {}}
        IN  IF winners = {} THEN phone = NoneVal
            ELSE LET k == Least(winners)
                     matches == FindAll(Patterns[k], text)
                 IN  phone = NineOf(matches[Least(Qualifying(k, text))])

\* The winning pattern had several matches of which exactly the last two
\* qualified, with different numbers, and the number of the earlier of the
\* two was returned.
C32_Witness ==
    /\ xpc = "done"
    /\ \E k \in DOMAIN Patterns :
           LET matches == FindAll(Patterns[k], text)
           IN  /\ \A j \in 1..(k - 1) : Qualifying(j, text) = {}
               /\ Len(matches) >= 2
               /\ Qualifying(k, text) = {Len(matches) - 1, Len(matches)}
               /\ NineOf(matches[Len(matches)])
                      # NineOf(matches[Len(matches) - 1])
               /\ phone = NineOf(matches[Len(matches) - 1])

\* C33: status 401 comes before every other signal of its response.  A
\* login answered with 401 is denied also when the resolved url is the
\* order-history location; an address request answered with 401 is denied
\* whatever its body holds, and no number is taken from it; a login page or
\* an order history answered with a status other than 200 and 401 is a
\* failed step, neither ok nor denied.
C33_DeniedTakesPrecedence ==
    \A t \in DOMAIN task :
        LET tk == task[t]
            n == Len(tk.resps)
            Banned == /\ tk.st = "done"
                      /\ tk.result = PhoneResult(tk.username, tk.password,
                                                 NoneVal, FALSE,
                                                 "IP/Account banned (401)",
                                                 TRUE)
        IN  /\ (n >= 2 /\ Denied(tk.resps[2])) => (Banned /\ n = 2)
            /\ (n = 4 /\ Denied(tk.resps[4])) => Banned
            /\ \A k \in {1, 3} :
                   (/\ n >= k /\ ~tk.resps[k].exc
                    /\ tk.resps[k].status \notin {200, 401}) =>
                       /\ n = k
                       /\ tk.st = "done"
                       /\ tk.result = Failure(tk, StepError[k])

\* A login was answered with status 401 on the order-history location, and
\* the attempt has ended as banned.
C33_Witness ==
    /\ task[1].st = "done" /\ Len(task[1].resps) = 2
    /\ task[1].resps[2].status = 401
    /\ task[1].resps[2].url = HistoryUrl
    /\ task[1].result.banned

\* C34: attempts are submitted in the order of the input, each at most
\* once.  At every moment the positions submitted so far are the first
\* submitted_count positions of the credentials; a step submits at most one
\* attempt, for the position after those, with the pair at that position,
\* and an attempt once submitted is never queued again; and a run that
\* returns without stop() has submitted every position.
C34_SubmittedIsPrefix ==
    /\ []({t \in DOMAIN task : task[t].st # "unsubmitted"}
              = 1..submitted_count)
    /\ []((pc = "returned" /\ ~stop_event) =>
              submitted_count = Len(credentials))
    /\ [][\A t \in DOMAIN task :
              (task'[t].st = "queued" /\ task[t].st # "queued") =>
                  /\ task[t].st = "unsubmitted"
                  /\ t = submitted_count + 1
                  /\ submitted_count' = t
                  /\ Len(queue') = Len(queue) + 1
                  /\ queue'[Len(queue')] = t
                  /\ task'[t].username = credentials[t][1]
                  /\ task'[t].password = credentials[t][2]]_vars

\* A run with one worker has submitted three pairs in its burst and the
\* fourth from the remaining ones, and returned without stop().
C34_Witness ==
    /\ pc = "returned" /\ ~stop_event
    /\ max_workers = 1 /\ initial_batch = 3
    /\ submitted_count = 4 /\ remaining_index = 4
    /\ \A t \in DOMAIN task : task[t].st = "collected"

\* The control loop is at the top of an iteration of its while loop.
AtLoopBoundary == pc = "loop_test"

\* C35: the dispatcher's bookkeeping is conserved.  At every moment, and so
\* at every boundary of the control loop, the attempts submitted are those
\* collected plus those in future_to_account, and completed_count <=
\* submitted_count <= total_count; completed_count never decreases; and at a
\* boundary of the loop, while stop() has not been called, the attempts
\* submitted and the credentials remaining add up to total_count.
C35_BookkeepingConserved ==
    /\ [](/\ submitted_count = completed_count + Len(future_to_account)
          /\ completed_count <= submitted_count
          /\ pc # "start" => submitted_count <= total_count
          /\ (AtLoopBoundary /\ ~stop_event) =>
                 submitted_count + Len(remaining_credentials) = total_count)
    /\ [][completed_count' >= completed_count]_vars

\* At a boundary of the loop some attempts are collected, some in flight and
\* some credentials remain.
C35_Witness ==
    /\ AtLoopBoundary /\ ~stop_event
    /\ completed_count >= 1
    /\ Len(future_to_account) >= 1
    /\ Len(remaining_credentials) >= 1
    /\ submitted_count + Len(remaining_credentials) = total_count

\* C36: three announcements come first.  The first three invocations of
\* the callback carry completedCount 0 and a result with empty username and
\* password, success=false and banned=false; every later invocation carries
\* the result of an attempt; the control loop is not entered before the
\* third; and a run over no credentials returns after exactly these three.
C36_ThreeAnnouncementsFirst ==
    /\ [](/\ \A k \in DOMAIN callbacks :
                 IF k <= 3
                 THEN /\ callbacks[k].future = 0
                      /\ callbacks[k].completed = 0
                      /\ callbacks[k].username = EmptyStr
                      /\ callbacks[k].password = EmptyStr
                      /\ callbacks[k].total = Len(credentials)
                 ELSE callbacks[k].future >= 1 /\ callbacks[k].completed >= 1
          /\ pc \notin {"start", "announce_submit", "burst_check",
                        "burst_submit", "announce_running"} =>
                 Len(callbacks) >= 3
          /\ (pc = "returned" /\ credentials = <<>>) => Len(callbacks) = 3)
    /\ [][(Len(callbacks') > Len(callbacks) /\ Len(callbacks) < 3) =>
              /\ Len(callbacks') = Len(callbacks) + 1
              /\ last_cb'.completed = 0
              /\ last_cb'.result.username = EmptyStr
              /\ last_cb'.result.password = EmptyStr
              /\ ~last_cb'.result.success
              /\ ~last_cb'.result.banned]_vars

\* A run over no credentials has returned after its three announcements.
C36_Witness ==
    /\ pc = "returned" /\ credentials = <<>>
    /\ Len(callbacks) = 3
    /\ last_cb.completed = 0 /\ last_cb.total = 0

\* C37: the stop event is sticky.  No step clears it; an attempt that makes
\* its entry check while it is set returns "Process stopped" without a
\* session and without a request; and a call of process_accounts_threaded
\* that begins after stop() submits no attempt, constructs no session and
\* hands no result of an attempt to the callback.
C37_StopIsSticky ==
    /\ [][/\ stop_event => stop_event'
          /\ \A t \in DOMAIN task :
                 (stop_event /\ task[t].st \in {"queued", "called"}
                             /\ task'[t].st # task[t].st) =>
                     /\ task'[t].st = "done"
                     /\ task'[t].result = Failure(task[t], "Process stopped")
                     /\ task'[t].session = "none"
                     /\ task'[t].calls = <<>>
                     /\ sessions' = sessions]_vars
    /\ [](at_stop.before =>
              /\ stop_event
              /\ submitted_count = 0 /\ queue = <<>>
              /\ future_to_account = <<>>
              /\ \A t \in DOMAIN task : task[t].st = "unsubmitted"
              /\ sessions = <<>>
              /\ ResultCallbacks = <<>>)

\* A call on MaxCreds pairs that began after stop() has made its three
\* announcements and returned.
C37_Witness ==
    /\ at_stop.before /\ pc = "returned"
    /\ Len(credentials) = MaxCreds
    /\ Len(callbacks) = 3

\* The parts of a line of the file around its first ':', trimmed.
FirstColon(line) == Least({k \in DOMAIN line : line[k] = ":"})

IdentifierOf(line) == Strip(SubSeq(line, 1, FirstColon(line) - 1))

SecretOf(line) == Strip(SubSeq(line, FirstColon(line) + 1, Len(line)))

Accepted(line) ==
    /\ \E k \in DOMAIN line : line[k] = ":"
    /\ IdentifierOf(line) # <<>>
    /\ \E k \in DOMAIN IdentifierOf(line) : IdentifierOf(line)[k] = "@"
    /\ SecretOf(line) # <<>>

PairsOf(lines) ==
    LET kept == SelectSeq(lines, Accepted)
    IN  [k \in DOMAIN kept |-> <<IdentifierOf(kept[k]), SecretOf(kept[k])>>]

\* C38 as stated: get_valid_credentials returns, in file order, exactly the
\* lines of the file that contain ':', whose part before the first ':',
\* trimmed, is non-empty and contains '@', and whose part after it, trimmed,
\* is non-empty.
C38_ExactlyTheAcceptedLines ==
    pc = "loaded" /\ file.exists => credentials = PairsOf(file.lines)

\* C38: when the file is read to its end without an exception,
\* get_valid_credentials returns, in file order, exactly the lines that
\* contain ':', whose part before the first ':', trimmed, is non-empty and
\* contains '@', and whose part after it, trimmed, is non-empty, as the pair
\* of the two trimmed parts, so that a later ':' stays in the password; when
\* the file is missing or reading it raises, it returns the empty list; no
\* returned pair has an empty identifier or secret.
C38_AcceptedLinesOfAReadFile ==
    pc = "loaded" =>
        /\ credentials = IF file.exists /\ ~file.raises
                         THEN PairsOf(file.lines)
                         ELSE <<>>
        /\ \A k \in DOMAIN credentials :
               credentials[k][1] # <<>> /\ credentials[k][2] # <<>>

\* A file of two lines was loaded: one was dropped, and the one returned has
\* a ':' in its password and was trimmed.
C38_Witness ==
    /\ pc = "loaded"
    /\ file.exists /\ ~file.raises
    /\ Len(file.lines) = 2
    /\ Len(credentials) = 1
    /\ \E k \in DOMAIN credentials[1][2] : credentials[1][2][k] = ":"
    /\ \E k \in DOMAIN file.lines :
           /\ Accepted(file.lines[k])
           /\ IsSpace(file.lines[k][1])

\* The results of a sequence of hand-overs, and the results 1..n in the order
\* in which progress_callback received them.
ResultsOf(handed) == [k \in DOMAIN handed |-> handed[k].result]

Signalled(handed) == SelectSeq(handed, LAMBDA h : h.via = "signal")

Received(n) == [k \in 1..n |-> k]

LastCallbackMade ==
    worker.calls >= 1 /\ CompletedOf(worker.calls) = worker.total_accounts

\* C39 as stated: while stop() has not been called, every result passed to
\* progress_callback is pending in result_batch or was emitted in exactly one
\* batch_progress_updated signal, in the order received, and after the
\* callback with completed == total nothing is pending.
C39_EmittedInOneSignal ==
    ~worker.is_stopped =>
        /\ ResultsOf(Signalled(worker.handed)) \o worker.result_batch
               = Received(worker.calls)
        /\ LastCallbackMade => worker.result_batch = <<>>

\* C39: while stop() has not been called, every result passed to
\* progress_callback is pending in result_batch or has been handed to the
\* window exactly once, by an emission of batch_progress_updated or by
\* flush_pending_updates calling on_batch_progress_updated itself; the
\* results leave the worker in the order received, and after the callback
\* with completed == total nothing is pending.
C39_HandedOverOnce ==
    ~worker.is_stopped =>
        /\ ResultsOf(worker.handed) \o worker.result_batch
               = Received(worker.calls)
        /\ LastCallbackMade => worker.result_batch = <<>>

\* A run of more than 200 attempts has made its last callback without
\* stop(): some signal carried several results, and the timer's flush took
\* some.
C39_Witness ==
    /\ ~worker.is_stopped
    /\ worker.total_accounts > 200
    /\ worker.calls = worker.total_accounts + 3
    /\ worker.batches.flush >= 1
    /\ Len(Signalled(worker.handed)) > worker.batches.signal
====
